---- MODULE Spec2Model ----
(***************************************************************************)
(* Model of src/logging/log.cc: the sampling profiler (Ticker, Profiler    *)
(* with its circular buffer and consumer thread) and the life cycle of     *)
(* V8FileLogger (SetUp, SetCodeEventHandler, StopProfilerThread,           *)
(* TearDownAndGetLogFile) with the listeners it registers.                 *)
(*                                                                         *)
(* Three threads act: "main" (the thread that owns the isolate and calls   *)
(* SetUp/TearDown and issues code events), the sampler (SamplingThread /   *)
(* Ticker::SampleStack, which calls Profiler::Insert) and the consumer     *)
(* (Profiler::Run).  Every memory access of Insert and Remove is one step, *)
(* so that the unsynchronised accesses to overflow_ interleave the way two *)
(* real threads can interleave them.                                       *)
(***************************************************************************)
EXTENDS Integers, Sequences, FiniteSets, TLC

(* ---- bounds ----------------------------------------------------------- *)

\* Profiler::kBufferSize is 128 in the source (log.cc:993); the model keeps
\* the ring small so that a full buffer and a wrap-around are reached.
kBufferSize == 3

\* number of samples the sampling thread captures
MaxSamples == 4

\* number of code events the producer issues
MaxEvents == 2

\* NameBuffer::kUtf8BufferSize is 4096 in the source (log.cc:233); the model
\* keeps the buffer small so that one call can ask for more than fits.
kUtf8BufferSize == 24

\* longest string handed to the name buffer; longer than the buffer
MaxLen == kUtf8BufferSize + 2

\* number of isolates of the process, each on its own thread
MaxIsolates == 2

\* number of code events the perf-map encoders are handed
MaxLines == 2

\* number of calls made to the entry points of the text encoder
MaxCalls == 3

\* number of events the low-level encoder is handed
MaxLlEvents == 2

\* number of code events the external listener hands to its handler
MaxHandled == 2

\* number of records a CodeEventLogger composes in its name buffer
MaxRecords == 2

\* the longest log file name
MaxFileName == 3

\* number of JitLoggers constructed
MaxJitLoggers == 3

\* number of text-encoder operations begun by the one thread of the lock model
MaxLkOps == 4

\* number of scripts and of EnsureLogScriptSource calls
MaxScripts == 2

MaxEnsureCalls == 3

\* number of CodeLinePosInfoRecordEvent calls, and the longest source
\* position table
MaxJitCalls == 2

MaxTable == 2

(* ---- state ------------------------------------------------------------ *)

VARIABLES
  FLAG,          \* the configuration flags read by SetUp
  mPc,           \* position of the main thread
  mRet,          \* where Disengage returns to
  is_initialized_,
  is_logging_,
  logOpen,       \* log_ exists and has not been closed
  log,           \* records written to the shared text log
  listeners_,    \* the registry of isolate->logger(), in registration order
  live,          \* listener objects that exist (unique_ptr members set)
  released,      \* listener objects whose destructor has run
  calls,         \* listener calls made by the registry, in order
  issued,        \* events issued by the producer, in order
  regAt,         \* history: Len(issued) when each listener was registered
  profilerObj,   \* V8FileLogger::profiler_ is non-null
  tickerObj,     \* V8FileLogger::ticker_ is non-null
  profiler_,     \* Ticker::profiler_ is non-null
  samplerActive, \* SamplingThread is running (Sampler::IsActive)
  buffer_, head_, tail_, overflow_, sem, running_,
  iPc, iSample,  \* position and argument of Insert, per calling thread
  nextSample,    \* number of the next sample the sampler captures
  cPc, cSample, cResult, cOverflow,   \* consumer: Run/Remove locals
  accepted,      \* history: samples Insert wrote to the buffer
  removed,       \* history: samples Remove returned
  ticks,         \* history: TickEvent calls made by Run
  unread,        \* history: slots written and not yet passed by tail_
  fullSince,     \* history: Insert set overflow_ since the last Remove return
  lastFull,      \* history: fullSince at the last Remove return
  owed,          \* history: an overflow set by Insert, not yet in a Tick
  sentinelFate,  \* history: what Insert did with the sentinel of Disengage
  atDisengage    \* history: accepted when Disengage was called

\* CodeEventLogger::NameBuffer (log.cc:155-238)
VARIABLES
  name_buffer_   \* CodeEventLogger::name_buffer_, the record
                 \*   pos:     NameBuffer::utf8_pos_
                 \*   hi:      highest index of utf8_buffer_ stored to, or -1
                 \*   dropped: some call stored fewer bytes than it was given

nameVars == <<name_buffer_>>

\* LinuxPerfBasicLogger (log.cc:329-436), one instance per isolate
VARIABLES
  FLAG_perf_basic_prof_only_functions,
  procState,            \* "running", or how the process ended
  file_mutex_,          \* the isolate whose thread holds it, 0 when free
  reference_count_,
  perf_output_handle_,  \* "nullptr" or "file"
  perfPc,               \* position of each isolate's thread
  perfArg,              \* the code event LogRecordedBuffer is writing
  perfFile,             \* history: the lines written to the perf-map file
  perfSkipped,          \* history: the events LogRecordedBuffer filtered out
  perfSurvived          \* history: a destruction left another instance

perfVars == <<FLAG_perf_basic_prof_only_functions, procState, file_mutex_,
              reference_count_, perf_output_handle_, perfPc, perfArg,
              perfFile, perfSkipped, perfSurvived>>

\* the text encoder (V8FileLogger event entry points) and the shared log
VARIABLES
  is_profiling,    \* isolate_->is_profiling(): the CPU profiler is running
  mutex_,          \* log_->mutex(): the thread that holds it, or "none"
  textPc,          \* position of each thread inside an entry point
  textKind,        \* the event each thread is writing, and its call number
  textValue,       \* the argument of UpdateIsLogging
  format_buffer_,  \* the fields of the message being built
  textCalls,       \* history: number of entry-point calls made
  textMade         \* history: the calls made, and which got a builder

textVars == <<is_profiling, mutex_, textPc, textKind, textValue,
              format_buffer_, textCalls, textMade>>

\* LowLevelLogger (log.cc:609-760)
VARIABLES
  ll_output_handle_,  \* "unset" before the constructor, "nullptr", "file",
                      \* "closed" after the destructor
  ll_file,            \* the bytes written to the .ll file
  llEvents            \* history: the events the encoder was handed

llVars == <<ll_output_handle_, ll_file, llEvents>>

\* the perf-map state without procState
perfOwn == <<FLAG_perf_basic_prof_only_functions, file_mutex_,
             reference_count_, perf_output_handle_, perfPc, perfArg,
             perfFile, perfSkipped, perfSurvived>>

\* ExternalLogEventListener (log.cc:438-625)
VARIABLES
  is_listening_,        \* ExternalLogEventListener::is_listening_
  code_event_handler_,  \* "nullptr" or "handler"
  handled               \* history: the v8::CodeEvents handed to the handler

tagVars == <<is_listening_, code_event_handler_, handled>>

\* history of the text encoder's code-creation events
VARIABLES
  ccAsked   \* the tag and the name length of each CodeCreateEvent call

ccVars == <<ccAsked>>

\* the bytes of a CodeEventLogger's name buffer and what it recorded
VARIABLES
  utf8_buffer_,  \* NameBuffer::utf8_buffer_: per index, the record and the
                 \* part of the name the byte was stored for
  recorded       \* history: the (tag, name, length) LogRecordedBuffer got

celVars == <<utf8_buffer_, recorded>>

\* V8FileLogger::CodeLinePosInfoRecordEvent and the JitLogger
VARIABLES
  jitPc,             \* "idle", or the position inside CodeLinePosEvent
  jitIter,           \* the entries of the table the iterator has not passed
  jit_handler_data,  \* the local of CodeLinePosEvent
  jitDelivered,      \* history: the JitCodeEvents handed to the handler
  jitCalls           \* history: the calls of CodeLinePosInfoRecordEvent

jitVars == <<jitPc, jitIter, jit_handler_data, jitDelivered, jitCalls>>

\* the calls of SetUp and TearDownAndGetLogFile as their caller sees them
VARIABLES
  apiCall,   \* the last call: its name and what it returned, if it has
  apiSeq,    \* flips with every call
  apiEarly   \* history: the operations that have returned at once

apiVars == <<apiCall, apiSeq, apiEarly>>

\* V8FileLogger::EnsureLogScriptSource
VARIABLES
  logged_source_code_,  \* the script ids the coordinator takes as logged
  ensureCalls           \* history: the calls, what each returned and wrote

srcVars == <<logged_source_code_, ensureCalls>>

\* one thread inside the operations of the text encoder
VARIABLES
  lkStack,    \* the call stack: the function of each frame and its position
  lkHolder,   \* 0, or the depth of the frame whose message builder is alive
  lkDead,     \* the thread waits for the log lock it holds itself
  lkCalled,   \* history: the functions called from inside an operation
  lkOps       \* the number of operations begun

lkVars == <<lkStack, lkHolder, lkDead, lkCalled, lkOps>>

\* PrepareLogFileName
VARIABLES
  pfnPc,       \* "idle", "loop" or "done"
  pfnName,     \* file_name, without its terminating NUL
  pfnPerIso,   \* FLAG_logfile_per_isolate
  pfnP,        \* p, as an index into file_name (the NUL is at Len + 1)
  pfnCount,    \* dir_separator_count
  pfnOut,      \* what has been written to os
  pfnHi        \* the highest index of file_name read

pfnVars == <<pfnPc, pfnName, pfnPerIso, pfnP, pfnCount, pfnOut, pfnHi>>

\* the callers of an ExternalLogEventListener
VARIABLES
  extAlive,   \* the listener object exists
  extCall,    \* the last call made on it (or its constructor, destructor)
  extSeq      \* flips with every call

lsnVars == <<extAlive, extCall, extSeq>>

\* the JitLoggers of SetCodeEventHandler, each with its own identity
VARIABLES
  jit_logger_,   \* the JitLogger the V8FileLogger owns, 0 when null
  jlListeners,   \* the JitLoggers in the registry, in order of registration
  jlMade,        \* the JitLoggers constructed so far; the next is jlMade + 1
  jlDestroyed,   \* the JitLoggers destroyed so far
  jlHandler,     \* the event_handler of the last SetCodeEventHandler call
  jlRet          \* where SetCodeEventHandler was called from

jlVars == <<jit_logger_, jlListeners, jlMade, jlDestroyed, jlHandler, jlRet>>

\* the state added for the external listener, the JIT encoder and the
\* callers of the coordinator
auxVars == <<tagVars, ccVars, celVars, jitVars, apiVars, srcVars, lkVars, pfnVars, lsnVars, jlVars>>

auxButTag == <<ccVars, celVars, jitVars, apiVars, srcVars, lkVars, pfnVars, lsnVars, jlVars>>

auxButCc == <<tagVars, celVars, jitVars, apiVars, srcVars, lkVars, pfnVars, lsnVars, jlVars>>

auxButCel == <<tagVars, ccVars, jitVars, apiVars, srcVars, lkVars, pfnVars, lsnVars, jlVars>>

auxButJit == <<tagVars, ccVars, celVars, apiVars, srcVars, lkVars, pfnVars, lsnVars, jlVars>>

auxButApi == <<tagVars, ccVars, celVars, jitVars, srcVars, lkVars, pfnVars, lsnVars, jlVars>>

auxButSrc == <<tagVars, ccVars, celVars, jitVars, apiVars, lkVars, pfnVars, lsnVars, jlVars>>

auxButLk == <<tagVars, ccVars, celVars, jitVars, apiVars, srcVars, pfnVars, lsnVars, jlVars>>

auxButPfn == <<tagVars, ccVars, celVars, jitVars, apiVars, srcVars, lkVars, lsnVars, jlVars>>

auxButLsn == <<tagVars, ccVars, celVars, jitVars, apiVars, srcVars, lkVars, pfnVars, jlVars>>

auxButTagLsn == <<ccVars, celVars, jitVars, apiVars, srcVars, lkVars, pfnVars, jlVars>>

auxButJl == <<tagVars, ccVars, celVars, jitVars, apiVars, srcVars, lkVars, pfnVars, lsnVars>>

\* the state of the four encoders
encVars == <<nameVars, perfVars, textVars, llVars>>

\* the state of the encoders, outside the sampling pipeline and the registry
extVars == <<encVars, auxVars>>

coreVars == <<FLAG, mPc, mRet, is_initialized_, is_logging_, logOpen, log,
              listeners_, live, released, calls, issued, regAt, profilerObj,
              tickerObj, profiler_, samplerActive, buffer_, head_, tail_,
              overflow_, sem, running_, iPc, iSample, nextSample, cPc, cSample,
              cResult, cOverflow, accepted, removed, ticks, unread, fullSince,
              lastFull, owed, sentinelFate, atDisengage>>

vars == <<coreVars, extVars>>

mainVars == <<FLAG, mPc, mRet, is_initialized_, is_logging_, logOpen,
              listeners_, live, released, calls, issued, regAt, profilerObj,
              tickerObj>>

ringVars == <<buffer_, head_, tail_, overflow_, sem>>

insertVars == <<iPc, iSample>>

consumerVars == <<cPc, cSample, cResult, cOverflow>>

histVars == <<accepted, removed, ticks, unread, fullSince, lastFull, owed,
              sentinelFate, atDisengage>>

\* coreVars without is_logging_ and log
coreButLog == <<FLAG, mPc, mRet, is_initialized_, logOpen, listeners_, live,
                released, calls, issued, regAt, profilerObj, tickerObj,
                profiler_, samplerActive, ringVars, running_, insertVars,
                nextSample, consumerVars, histVars>>

\* coreVars without listeners_
coreButListeners == <<FLAG, mPc, mRet, is_initialized_, is_logging_, logOpen,
                      log, live, released, calls, issued, regAt, profilerObj,
                      tickerObj, profiler_, samplerActive, ringVars, running_,
                      insertVars, nextSample, consumerVars, histVars>>

(* ---- helpers ---------------------------------------------------------- *)

\* a default-constructed TickSample: the initial buffer slots and the
\* sentinel of Disengage
DefaultSample == 0

Listeners == {"perf_basic", "perf_jit", "ll", "jit", "v8file"}

Threads == {"sampler", "main"}

EventKinds == {"CodeCreate", "CodeMove", "CodeDisableOpt"}

Range(s) == {s[i] : i \in 1..Len(s)}

IsPrefix(s, t) == Len(s) <= Len(t) /\ s = SubSeq(t, 1, Len(s))

Front(s) == SubSeq(s, 1, Len(s) - 1)

RemoveFromSeq(s, x) == SelectSeq(s, LAMBDA y : y # x)

\* Profiler::Succ
Succ(index) == (index + 1) % kBufferSize

\* the capacity test of Profiler::Insert
BufferFullNever(h, t) == FALSE

BufferFullWhenEmpty(h, t) == h = t

BufferFull(h, t) == Succ(h) = t

(* ---- Profiler::Insert (log.cc:963-971), one step per memory access ---- *)

\* if (Succ(head_) == Acquire_Load(&tail_))
InsertCheck(t) ==
  /\ iPc[t] = "check"
  /\ iPc' = [iPc EXCEPT ![t] = IF BufferFull(head_, tail_) THEN "ovf"
                                                           ELSE "write"]
  /\ UNCHANGED <<extVars, mainVars, log, profiler_, samplerActive, ringVars, running_,
                 iSample, nextSample, consumerVars, histVars>>

\* overflow_ = true;   (the sample is dropped)
InsertOverflow(t) ==
  /\ iPc[t] = "ovf"
  /\ overflow_' = TRUE
  /\ iPc' = [iPc EXCEPT ![t] = "none"]
  /\ fullSince' = TRUE
  /\ owed' = TRUE
  /\ sentinelFate' = IF t = "main" THEN "dropped" ELSE sentinelFate
  /\ UNCHANGED <<extVars, mainVars, log, profiler_, samplerActive, buffer_, head_,
                 tail_, sem, running_, iSample, nextSample, consumerVars,
                 accepted, removed, ticks, unread, lastFull, atDisengage>>

\* Insert that writes the slot the consumer reads next
InsertWriteAtTail(t) ==
  /\ iPc[t] = "write"
  /\ buffer_' = [buffer_ EXCEPT ![tail_] = iSample[t]]
  /\ iPc' = [iPc EXCEPT ![t] = "head"]
  /\ accepted' = Append(accepted, iSample[t])
  /\ unread' = unread \cup {head_}
  /\ sentinelFate' = IF t = "main" THEN "written" ELSE sentinelFate
  /\ UNCHANGED <<extVars, mainVars, log, profiler_, samplerActive, head_, tail_,
                 overflow_, sem, running_, iSample, nextSample, consumerVars,
                 removed, ticks, fullSince, lastFull, owed, atDisengage>>

\* buffer_[head_] = *sample;
InsertWrite(t) ==
  /\ iPc[t] = "write"
  /\ buffer_' = [buffer_ EXCEPT ![head_] = iSample[t]]
  /\ iPc' = [iPc EXCEPT ![t] = "head"]
  /\ accepted' = Append(accepted, iSample[t])
  /\ unread' = unread \cup {head_}
  /\ sentinelFate' = IF t = "main" THEN "written" ELSE sentinelFate
  /\ UNCHANGED <<extVars, mainVars, log, profiler_, samplerActive, head_, tail_,
                 overflow_, sem, running_, iSample, nextSample, consumerVars,
                 removed, ticks, fullSince, lastFull, owed, atDisengage>>

\* head_ = Succ(head_);
InsertHead(t) ==
  /\ iPc[t] = "head"
  /\ head_' = Succ(head_)
  /\ iPc' = [iPc EXCEPT ![t] = "signal"]
  /\ UNCHANGED <<extVars, mainVars, log, profiler_, samplerActive, buffer_, tail_,
                 overflow_, sem, running_, iSample, nextSample, consumerVars,
                 histVars>>

\* Insert that forgets to signal the semaphore
InsertNoSignal(t) ==
  /\ iPc[t] = "signal"
  /\ iPc' = [iPc EXCEPT ![t] = "none"]
  /\ UNCHANGED <<extVars, mainVars, log, profiler_, samplerActive, ringVars, running_,
                 iSample, nextSample, consumerVars, histVars>>

\* buffer_semaphore_.Signal();
InsertSignal(t) ==
  /\ iPc[t] = "signal"
  /\ sem' = sem + 1
  /\ iPc' = [iPc EXCEPT ![t] = "none"]
  /\ UNCHANGED <<extVars, mainVars, log, profiler_, samplerActive, buffer_, head_,
                 tail_, overflow_, running_, iSample, nextSample,
                 consumerVars, histVars>>

(* ---- Ticker::SampleStack (log.cc:1034-1045), driven by SamplingThread - *)

\* SamplingThread::Run calls DoSample while the sampler is active;
\* SampleStack returns at once when no profiler is attached
SampleStack ==
  /\ samplerActive
  /\ iPc["sampler"] = "none"
  /\ nextSample <= MaxSamples
  /\ nextSample' = nextSample + 1
  /\ IF profiler_
       THEN /\ iPc' = [iPc EXCEPT !["sampler"] = "check"]
            /\ iSample' = [iSample EXCEPT !["sampler"] = nextSample]
       ELSE UNCHANGED <<iPc, iSample>>
  /\ UNCHANGED <<extVars, mainVars, log, profiler_, samplerActive, ringVars, running_,
                 consumerVars, histVars>>

(* ---- the shared text log ---------------------------------------------- *)

\* LOG(isolate, Call) and LogFile::NewMessageBuilder: nothing is written
\* unless logging is enabled
LogEnabled == is_logging_ /\ logOpen

(* ---- Profiler::Remove (log.cc:977-985) and Profiler::Run (1101-1108) -- *)

\* Remove that does not wait for the semaphore
RemoveWaitNot ==
  /\ cPc = "wait"
  /\ sem' = sem
  /\ cPc' = "copy"
  /\ UNCHANGED <<extVars, mainVars, log, profiler_, samplerActive, buffer_, head_,
                 tail_, overflow_, running_, insertVars, nextSample, cSample,
                 cResult, cOverflow, histVars>>

\* buffer_semaphore_.Wait();
RemoveWait ==
  /\ cPc = "wait"
  /\ sem > 0
  /\ sem' = sem - 1
  /\ cPc' = "copy"
  /\ UNCHANGED <<extVars, mainVars, log, profiler_, samplerActive, buffer_, head_,
                 tail_, overflow_, running_, insertVars, nextSample, cSample,
                 cResult, cOverflow, histVars>>

\* *sample = buffer_[Relaxed_Load(&tail_)];
RemoveCopy ==
  /\ cPc = "copy"
  /\ cSample' = buffer_[tail_]
  /\ cPc' = "readovf"
  /\ UNCHANGED <<extVars, mainVars, log, profiler_, samplerActive, ringVars, running_,
                 insertVars, nextSample, cResult, cOverflow, histVars>>

\* bool result = overflow_;
RemoveReadOverflow ==
  /\ cPc = "readovf"
  /\ cResult' = overflow_
  /\ cPc' = "tail"
  /\ UNCHANGED <<extVars, mainVars, log, profiler_, samplerActive, ringVars, running_,
                 insertVars, nextSample, cSample, cOverflow, histVars>>

\* Remove that stores tail_ back without advancing it
RemoveStoreTailStuck ==
  /\ cPc = "tail"
  /\ cPc' = "clrovf"
  /\ UNCHANGED <<extVars, mainVars, log, profiler_, samplerActive, ringVars, running_,
                 insertVars, nextSample, cSample, cResult, cOverflow,
                 histVars>>

\* Release_Store(&tail_, Succ(Relaxed_Load(&tail_)));
RemoveStoreTail ==
  /\ cPc = "tail"
  /\ tail_' = Succ(tail_)
  /\ unread' = unread \ {tail_}
  /\ cPc' = "clrovf"
  /\ UNCHANGED <<extVars, mainVars, log, profiler_, samplerActive, buffer_, head_,
                 overflow_, sem, running_, insertVars, nextSample, cSample,
                 cResult, cOverflow, accepted, removed, ticks, fullSince,
                 lastFull, owed, sentinelFate, atDisengage>>

\* overflow_ = false; return result;
RemoveReturn ==
  /\ cPc = "clrovf"
  /\ overflow_' = FALSE
  /\ cOverflow' = cResult
  /\ removed' = Append(removed, cSample)
  /\ lastFull' = fullSince
  /\ fullSince' = FALSE
  /\ cPc' = "test"
  /\ UNCHANGED <<extVars, mainVars, log, profiler_, samplerActive, buffer_, head_,
                 tail_, sem, running_, insertVars, nextSample, cSample,
                 cResult, accepted, ticks, unread, owed, sentinelFate,
                 atDisengage>>

\* a Run whose loop does not look at running_
RunTestNoLoad ==
  /\ cPc = "test"
  /\ cPc' = "tick"
  /\ UNCHANGED <<extVars, mainVars, log, profiler_, samplerActive, ringVars, running_,
                 insertVars, nextSample, cSample, cResult, cOverflow,
                 histVars>>

\* while (Relaxed_Load(&running_))
RunTest ==
  /\ cPc = "test"
  /\ cPc' = IF running_ THEN "tick" ELSE "done"
  /\ UNCHANGED <<extVars, mainVars, log, profiler_, samplerActive, ringVars, running_,
                 insertVars, nextSample, cSample, cResult, cOverflow,
                 histVars>>

\* the fields of a TickSample that TickEvent reads; the model numbers the
\* samples, and the number fixes the fields
MaxFrames == 3

FramesCount(sample) == sample % MaxFrames

Stack(sample) == [i \in 1..FramesCount(sample) |->
                    [f |-> "frame", v |-> 16 * sample + i - 1]]

HasExternalCallback(sample) == sample % 2 = 0

\* TickEvent that writes the overflow field after the stack frames
TickEventFieldsOverflowLast(sample, overflow) ==
  <<[f |-> "event", v |-> "tick"], [f |-> "pc", v |-> sample],
    [f |-> "time", v |-> 0]>>
  \o (IF HasExternalCallback(sample)
        THEN <<[f |-> "has_external_callback", v |-> 1],
               [f |-> "external_callback_entry", v |-> sample]>>
        ELSE <<[f |-> "has_external_callback", v |-> 0],
               [f |-> "tos", v |-> sample]>>)
  \o <<[f |-> "state", v |-> sample]>>
  \o Stack(sample)
  \o (IF overflow THEN <<[f |-> "overflow", v |-> "overflow"]>> ELSE <<>>)

\* the fields of the record V8FileLogger::TickEvent writes, in the order it
\* writes them (log.cc:1805-1818)
TickEventFields(sample, overflow) ==
  <<[f |-> "event", v |-> "tick"], [f |-> "pc", v |-> sample],
    [f |-> "time", v |-> 0]>>
  \o (IF HasExternalCallback(sample)
        THEN <<[f |-> "has_external_callback", v |-> 1],
               [f |-> "external_callback_entry", v |-> sample]>>
        ELSE <<[f |-> "has_external_callback", v |-> 0],
               [f |-> "tos", v |-> sample]>>)
  \o <<[f |-> "state", v |-> sample]>>
  \o (IF overflow THEN <<[f |-> "overflow", v |-> "overflow"]>> ELSE <<>>)
  \o Stack(sample)

\* the record V8FileLogger::TickEvent writes (log.cc:1799-1820)
TickRecord(sample, overflow) ==
  [ev |-> "tick", sample |-> sample, overflow |-> overflow,
   fields |-> TickEventFields(sample, overflow)]

\* Run that goes back to Remove without logging the sample
RunTickSkip ==
  /\ cPc = "tick"
  /\ cPc' = "wait"
  /\ UNCHANGED <<extVars, mainVars, log, profiler_, samplerActive, ringVars, running_,
                 insertVars, nextSample, cSample, cResult, cOverflow,
                 histVars>>

\* LOG(isolate_, TickEvent(&sample, overflow)); then Remove again
RunTick ==
  /\ cPc = "tick"
  /\ ticks' = Append(ticks, <<cSample, cOverflow>>)
  /\ log' = IF LogEnabled THEN Append(log, TickRecord(cSample, cOverflow))
                          ELSE log
  /\ owed' = IF LogEnabled /\ cOverflow THEN FALSE ELSE owed
  /\ cPc' = "wait"
  /\ UNCHANGED <<extVars, mainVars, profiler_, samplerActive, ringVars, running_,
                 insertVars, nextSample, cSample, cResult, cOverflow,
                 accepted, removed, unread, fullSince, lastFull,
                 sentinelFate, atDisengage>>

(* ---- the registry of isolate->logger() -------------------------------- *)

\* Logger::AddListener: refuses a listener that is already registered
AddListener(ls, l) == IF l \in Range(ls) THEN ls ELSE Append(ls, l)

\* what Logger::AddListener returns: false when the listener is there already
AddListenerResult(ls, l) == l \notin Range(ls)

\* Logger::RemoveListener
RemoveListener(ls, l) == RemoveFromSeq(ls, l)

\* the listeners an event is handed to, in dispatch order
DispatchTo(ls) == ls

\* CALL_CODE_EVENT_HANDLER of ExistingCodeLogger (log.cc:118-123): with a
\* listener_ of its own it calls that listener only, otherwise PROFILE
CallOwnListenerOnly(listener_, ls) == IF listener_ \in Range(ls)
                                        THEN <<listener_>> ELSE <<>>

CallCodeEventHandler(listener_, ls) ==
  IF listener_ # "nullptr" THEN <<listener_>> ELSE DispatchTo(ls)

\* the backing resource of a listener is still there: the shared log for
\* the text encoder, the object itself (and its file) for the others
ResourceAvailableIn(l, rel, open) == IF l = "v8file" THEN open
                                                     ELSE l \notin rel

ResourceAvailable(l) == ResourceAvailableIn(l, released, logOpen)

\* PROFILE(isolate, Call): every registered listener is called, one after
\* the other, on the caller's thread
Dispatch(e) ==
  [i \in 1..Len(DispatchTo(listeners_)) |->
     [listener |-> DispatchTo(listeners_)[i], event |-> e,
      ok |-> ResourceAvailable(DispatchTo(listeners_)[i])]]

\* what the text encoder writes for a code event (CodeCreateEvent,
\* CodeMoveEvent -> MoveEventInternal, CodeDisableOptEvent)
TextEncoderWrites == "v8file" \in Range(listeners_) /\ FLAG.log_code
                     /\ LogEnabled

(* ---- the main thread -------------------------------------------------- *)

Configs ==
  {f \in [perf_basic_prof : BOOLEAN, perf_prof : BOOLEAN, ll_prof : BOOLEAN,
          log : BOOLEAN, log_code : BOOLEAN, prof_cpp : BOOLEAN] :
     \* CHECK(FLAG_log) in SetUp (log.cc:2116)
     f.prof_cpp => f.log}

SetUpListeners(f) ==
  (IF f.perf_basic_prof THEN {"perf_basic"} ELSE {})
    \cup (IF f.perf_prof THEN {"perf_jit"} ELSE {})
    \cup (IF f.ll_prof THEN {"ll"} ELSE {})

\* the order in which SetUp registers and TearDown removes
TdOrder == <<"perf_basic", "perf_jit", "ll", "jit">>

TdRemovePc == <<"td_perf_basic", "td_perf_jit", "td_ll", "td_jit">>

TdResetPc == <<"td_perf_basic_reset", "td_perf_jit_reset", "td_ll_reset",
               "td_jit_reset">>

TdNextPc == <<"td_perf_jit", "td_ll", "td_jit", "td_close">>

RECURSIVE AddAll(_, _, _)
AddAll(ls, order, set) ==
  IF order = <<>> THEN ls
  ELSE AddAll(IF Head(order) \in set THEN AddListener(ls, Head(order))
                                     ELSE ls,
              Tail(order), set)

\* if (is_initialized_) return true;   (log.cc:2063)
SetUpReturnsAtOnceNever(initialized) == FALSE

SetUpReturnsAtOnce(initialized) == initialized

\* V8FileLogger::SetUp up to the creation of the profiler (log.cc:2061-2118),
\* called when the main thread is at pc; it makes a new Ticker and, with
\* --prof, a new Profiler
SetUpBody(pc) ==
  /\ mPc = pc
  /\ ~SetUpReturnsAtOnce(is_initialized_)
  /\ is_initialized_' = TRUE
  /\ logOpen' = TRUE
  /\ listeners_' = AddAll(listeners_, TdOrder, SetUpListeners(FLAG))
  /\ live' = live \cup SetUpListeners(FLAG)
  /\ released' = released \ SetUpListeners(FLAG)
  /\ regAt' = [l \in Listeners |->
                 IF l \in SetUpListeners(FLAG) THEN Len(issued) ELSE regAt[l]]
  /\ tickerObj' = TRUE
  \* Ticker::Ticker (log.cc:1011-1015, 1048)
  /\ profiler_' = FALSE
  /\ samplerActive' = FALSE
  /\ is_logging_' = IF FLAG.log THEN TRUE ELSE is_logging_
  /\ IF FLAG.prof_cpp
       THEN /\ profilerObj' = TRUE
            \* Profiler::Profiler (log.cc:1056-1064)
            /\ head_' = 0
            /\ tail_' = 0
            /\ overflow_' = FALSE
            /\ sem' = 0
            /\ running_' = FALSE
            /\ buffer_' = [i \in 0..(kBufferSize - 1) |-> DefaultSample]
            /\ cPc' = "idle"
            /\ mPc' = "engage_start"
       ELSE /\ mPc' = "setup_end"
            /\ UNCHANGED <<profilerObj, ringVars, running_, cPc>>
  /\ UNCHANGED <<FLAG, mRet, log, calls, issued, insertVars,
                 nextSample, cSample, cResult, cOverflow, histVars>>

SetUpFrom(pc) == SetUpBody(pc) /\ UNCHANGED extVars

\* the first SetUp of the V8FileLogger
SetUp == SetUpFrom("new")

\* SetUp called again: twice in a row, or after TearDownAndGetLogFile
SetUpAgain == \E pc \in {"ready", "closed"} : SetUpFrom(pc)

\* Profiler::Engage: running_ = 1; Start();   (log.cc:1066-1077)
EngageStart ==
  /\ mPc = "engage_start"
  /\ running_' = TRUE
  /\ cPc' = "wait"
  /\ log' = IF LogEnabled THEN Append(log, [ev |-> "shared-library-end"])
                          ELSE log
  /\ mPc' = "engage_set"
  /\ UNCHANGED <<extVars, FLAG, mRet, is_initialized_, is_logging_, logOpen,
                 listeners_, live, released, calls, issued, regAt,
                 profilerObj, tickerObj, profiler_, samplerActive, ringVars,
                 insertVars, nextSample, cSample, cResult, cOverflow,
                 histVars>>

\* logger->ticker_->SetProfiler(this)   (log.cc:1080-1081, 1021-1026)
EngageSetProfiler ==
  /\ mPc = "engage_set"
  /\ profiler_' = TRUE
  /\ samplerActive' = TRUE
  /\ mPc' = "engage_log"
  /\ UNCHANGED <<extVars, FLAG, mRet, is_initialized_, is_logging_, logOpen, log,
                 listeners_, live, released, calls, issued, regAt,
                 profilerObj, tickerObj, ringVars, running_, insertVars,
                 nextSample, consumerVars, histVars>>

\* LOG(isolate_, ProfilerBeginEvent())   (log.cc:1083)
EngageLog ==
  /\ mPc = "engage_log"
  /\ log' = IF LogEnabled THEN Append(log, [ev |-> "profiler-begin"])
                          ELSE log
  /\ mPc' = "setup_end"
  /\ UNCHANGED <<extVars, FLAG, mRet, is_initialized_, is_logging_, logOpen,
                 listeners_, live, released, calls, issued, regAt,
                 profilerObj, tickerObj, profiler_, samplerActive, ringVars,
                 running_, insertVars, nextSample, consumerVars, histVars>>

\* if (is_logging_) AddLogEventListener(this);   (log.cc:2121), where
\* AddLogEventListener is CHECK(AddListener(listener)) (log.cc:1136-1139):
\* a failed CHECK ends the process and with it every thread
SetUpEnd ==
  /\ mPc = "setup_end"
  /\ IF is_logging_ /\ ~AddListenerResult(listeners_, "v8file")
       THEN /\ procState' = "aborted"
            /\ mPc' = "aborted"
            /\ cPc' = "killed"
            /\ samplerActive' = FALSE
            /\ iPc' = [t \in Threads |-> "none"]
            /\ UNCHANGED <<listeners_, regAt>>
       ELSE /\ IF is_logging_
                 THEN /\ listeners_' = AddListener(listeners_, "v8file")
                      /\ regAt' = [regAt EXCEPT !["v8file"] = Len(issued)]
                 ELSE UNCHANGED <<listeners_, regAt>>
            /\ mPc' = "ready"
            /\ UNCHANGED <<procState, cPc, samplerActive, iPc>>
  /\ UNCHANGED <<auxVars, nameVars, textVars, llVars, perfOwn, FLAG, mRet, is_initialized_, is_logging_, logOpen, log,
                 live, released, calls, issued, profilerObj, tickerObj,
                 profiler_, ringVars, running_, iSample, nextSample, cSample,
                 cResult, cOverflow, histVars>>

\* a code event issued by the producer (compiler, GC) through PROFILE
CodeEvent(kind) ==
  /\ mPc \in {"ready", "closed"}
  /\ Len(issued) < MaxEvents
  /\ LET e == Len(issued) + 1 IN
       /\ issued' = Append(issued, kind)
       /\ calls' = calls \o Dispatch(e)
       /\ log' = IF TextEncoderWrites
                   THEN Append(log, [ev |-> kind, id |-> e])
                   ELSE log
  /\ UNCHANGED <<extVars, FLAG, mPc, mRet, is_initialized_, is_logging_, logOpen,
                 listeners_, live, released, regAt, profilerObj, tickerObj,
                 profiler_, samplerActive, ringVars, running_, insertVars,
                 nextSample, consumerVars, histVars>>

\* V8FileLogger::SetCodeEventHandler (log.cc:2133-2155)
SetCodeEventHandler(enumExisting, handler) ==
  /\ mPc = "ready"
  /\ "jit" \in live \/ handler
  /\ LET ls1 == IF "jit" \in live THEN RemoveListener(listeners_, "jit")
                                  ELSE listeners_
         replay == handler /\ enumExisting /\ Len(issued) < MaxEvents
         e == Len(issued) + 1
     IN /\ listeners_' = IF handler THEN AddListener(ls1, "jit") ELSE ls1
        /\ live' = IF handler THEN live \cup {"jit"} ELSE live \ {"jit"}
        /\ released' = IF handler THEN released \ {"jit"}
                       ELSE IF "jit" \in live THEN released \cup {"jit"}
                       ELSE released
        /\ regAt' = IF handler THEN [regAt EXCEPT !["jit"] = Len(issued)]
                               ELSE regAt
        \* LogBuiltins(); LogCodeObjects(); LogCompiledFunctions(); through
        \* existing_code_logger_, which has no listener_ of its own
        /\ IF replay
             THEN LET to == CallCodeEventHandler("nullptr", listeners_') IN
                  /\ issued' = Append(issued, "CodeCreate")
                  /\ calls' = calls \o
                       [i \in 1..Len(to) |->
                          [listener |-> to[i], event |-> e,
                           ok |-> ResourceAvailableIn(to[i], released',
                                                      logOpen)]]
                  /\ log' = IF TextEncoderWrites
                              THEN Append(log, [ev |-> "CodeCreate",
                                                id |-> e])
                              ELSE log
             ELSE UNCHANGED <<issued, calls, log>>
  /\ UNCHANGED <<extVars, FLAG, mPc, mRet, is_initialized_, is_logging_, logOpen,
                 profilerObj, tickerObj, profiler_, samplerActive, ringVars,
                 running_, insertVars, nextSample, consumerVars, histVars>>

\* V8FileLogger::StopProfilerThread called on its own (log.cc:2160-2165)
StopProfilerThread ==
  /\ mPc = "ready"
  /\ profilerObj
  /\ mPc' = "dis_clear"
  /\ mRet' = "ready"
  /\ UNCHANGED <<extVars, FLAG, is_initialized_, is_logging_, logOpen, log, listeners_,
                 live, released, calls, issued, regAt, profilerObj,
                 tickerObj, profiler_, samplerActive, ringVars, running_,
                 insertVars, nextSample, consumerVars, histVars>>

\* Join() of a base::Thread returns once the thread's Run has returned
ThreadJoinedAtOnce(pc) == TRUE

ThreadJoined(pc) == pc = "done"

\* Ticker::ClearProfiler: profiler_ = nullptr;   (log.cc:1088, 1029)
DisengageClear ==
  /\ mPc = "dis_clear"
  /\ profiler_' = FALSE
  /\ atDisengage' = accepted
  /\ mPc' = "dis_stop"
  /\ UNCHANGED <<extVars, FLAG, mRet, is_initialized_, is_logging_, logOpen, log,
                 listeners_, live, released, calls, issued, regAt,
                 profilerObj, tickerObj, samplerActive, ringVars, running_,
                 insertVars, nextSample, consumerVars, accepted, removed,
                 ticks, unread, fullSince, lastFull, owed, sentinelFate>>

\* ClearProfiler that stops the sampler without joining its thread
DisengageStopSamplerNoJoin ==
  /\ mPc = "dis_stop"
  /\ samplerActive' = FALSE
  /\ mPc' = "dis_running"
  /\ UNCHANGED <<extVars, FLAG, mRet, is_initialized_, is_logging_, logOpen, log,
                 listeners_, live, released, calls, issued, regAt,
                 profilerObj, tickerObj, profiler_, ringVars, running_,
                 insertVars, nextSample, consumerVars, histVars>>

\* Ticker::ClearProfiler: if (IsActive()) Stop(); sampling_thread_->Join();
\* the sample in progress is finished before Join returns (log.cc:1030-1031)
DisengageStopSampler ==
  /\ mPc = "dis_stop"
  /\ iPc["sampler"] = "none"
  /\ samplerActive' = FALSE
  /\ mPc' = "dis_running"
  /\ UNCHANGED <<extVars, FLAG, mRet, is_initialized_, is_logging_, logOpen, log,
                 listeners_, live, released, calls, issued, regAt,
                 profilerObj, tickerObj, profiler_, ringVars, running_,
                 insertVars, nextSample, consumerVars, histVars>>

\* base::Relaxed_Store(&running_, 0);   (log.cc:1093)
DisengageClearRunning ==
  /\ mPc = "dis_running"
  /\ running_' = FALSE
  /\ mPc' = "dis_insert"
  /\ UNCHANGED <<extVars, FLAG, mRet, is_initialized_, is_logging_, logOpen, log,
                 listeners_, live, released, calls, issued, regAt,
                 profilerObj, tickerObj, profiler_, samplerActive, ringVars,
                 insertVars, nextSample, consumerVars, histVars>>

\* TickSample sample; Insert(&sample);   (log.cc:1094-1095)
DisengageInsert ==
  /\ mPc = "dis_insert"
  /\ iPc' = [iPc EXCEPT !["main"] = "check"]
  /\ iSample' = [iSample EXCEPT !["main"] = DefaultSample]
  /\ mPc' = "dis_join"
  /\ UNCHANGED <<extVars, FLAG, mRet, is_initialized_, is_logging_, logOpen, log,
                 listeners_, live, released, calls, issued, regAt,
                 profilerObj, tickerObj, profiler_, samplerActive, ringVars,
                 running_, nextSample, consumerVars, histVars>>

\* Join();   (log.cc:1096)
DisengageJoin ==
  /\ mPc = "dis_join"
  /\ iPc["main"] = "none"
  /\ ThreadJoined(cPc)
  /\ mPc' = "dis_log"
  /\ UNCHANGED <<extVars, FLAG, mRet, is_initialized_, is_logging_, logOpen, log,
                 listeners_, live, released, calls, issued, regAt,
                 profilerObj, tickerObj, profiler_, samplerActive, ringVars,
                 running_, insertVars, nextSample, consumerVars, histVars>>

\* LOG(isolate_, UncheckedStringEvent("profiler", "end")); Disengage then
\* returns into StopProfilerThread, which does profiler_.reset()
\* (log.cc:1098, 2163)
DisengageReturn ==
  /\ mPc = "dis_log"
  /\ log' = IF LogEnabled THEN Append(log, [ev |-> "profiler-end"]) ELSE log
  /\ profilerObj' = FALSE
  /\ mPc' = mRet
  /\ UNCHANGED <<extVars, FLAG, mRet, is_initialized_, is_logging_, logOpen,
                 listeners_, live, released, calls, issued, regAt, tickerObj,
                 profiler_, samplerActive, ringVars, running_, insertVars,
                 nextSample, consumerVars, histVars>>

\* if (!is_initialized_) return nullptr;   (log.cc:2168)
TearDownReturnsAtOnceNever(initialized) == FALSE

TearDownReturnsAtOnce(initialized) == ~initialized

\* TearDownAndGetLogFile: is_initialized_ = false; UpdateIsLogging(false);
\* (log.cc:2167-2170), called when the main thread is at pc
TearDownBody(pc) ==
  /\ mPc = pc
  /\ ~TearDownReturnsAtOnce(is_initialized_)
  /\ is_initialized_' = FALSE
  /\ is_logging_' = FALSE
  /\ mPc' = "td_stop"
  /\ UNCHANGED <<FLAG, mRet, logOpen, log, listeners_, live, released, calls,
                 issued, regAt, profilerObj, tickerObj, profiler_,
                 samplerActive, ringVars, running_, insertVars, nextSample,
                 consumerVars, histVars>>

TearDownBegin == TearDownBody("ready") /\ UNCHANGED extVars

\* a call of SetUp by the embedder, a test or EnsureInitialize, between two
\* operations of the coordinator: it returns true at once (log.cc:2063) or
\* runs SetUp
ApiSetUp ==
  /\ \E pc \in {"new", "ready", "closed"} :
       IF SetUpReturnsAtOnce(is_initialized_)
         THEN /\ mPc = pc
              /\ apiCall' = [op |-> "SetUp", returned |-> "true"]
              /\ apiEarly' = apiEarly \cup {"SetUp"}
              /\ UNCHANGED coreVars
         ELSE /\ SetUpBody(pc)
              /\ apiCall' = [op |-> "SetUp", returned |-> "pending"]
              /\ UNCHANGED apiEarly
  /\ apiSeq' = 1 - apiSeq
  /\ UNCHANGED <<encVars, auxButApi>>

\* a call of TearDownAndGetLogFile: it returns nullptr at once
\* (log.cc:2168) or runs the teardown
ApiTearDownAndGetLogFile ==
  /\ \E pc \in {"new", "ready", "closed"} :
       IF TearDownReturnsAtOnce(is_initialized_)
         THEN /\ mPc = pc
              /\ apiCall' = [op |-> "TearDownAndGetLogFile",
                             returned |-> "nullptr"]
              /\ apiEarly' = apiEarly \cup {"TearDownAndGetLogFile"}
              /\ UNCHANGED coreVars
         ELSE /\ TearDownBody(pc)
              /\ apiCall' = [op |-> "TearDownAndGetLogFile",
                             returned |-> "pending"]
              /\ UNCHANGED apiEarly
  /\ apiSeq' = 1 - apiSeq
  /\ UNCHANGED <<encVars, auxButApi>>

ApiStart ==
  /\ apiCall = [op |-> "none", returned |-> "none"]
  /\ apiSeq = 0
  /\ apiEarly = {}

\* StopProfilerThread();   (log.cc:2173)
TearDownStopProfiler ==
  /\ mPc = "td_stop"
  /\ IF profilerObj THEN mPc' = "dis_clear" /\ mRet' = "td_ticker"
                    ELSE mPc' = "td_ticker" /\ UNCHANGED mRet
  /\ UNCHANGED <<extVars, FLAG, is_initialized_, is_logging_, logOpen, log, listeners_,
                 live, released, calls, issued, regAt, profilerObj,
                 tickerObj, profiler_, samplerActive, ringVars, running_,
                 insertVars, nextSample, consumerVars, histVars>>

\* ticker_.reset(); timer_.Stop();   (log.cc:2175-2176)
TearDownTicker ==
  /\ mPc = "td_ticker"
  /\ tickerObj' = FALSE
  /\ mPc' = "td_perf_basic"
  /\ UNCHANGED <<extVars, FLAG, mRet, is_initialized_, is_logging_, logOpen, log,
                 listeners_, live, released, calls, issued, regAt,
                 profilerObj, profiler_, samplerActive, ringVars, running_,
                 insertVars, nextSample, consumerVars, histVars>>

\* RemoveLogEventListener (log.cc:1141-1143)
TdUnregister(ls, l) == RemoveListener(ls, l)

\* if (x_logger_) { RemoveLogEventListener(x_logger_.get()); ...
\* (log.cc:2179-2199)
TearDownRemove(i) ==
  /\ mPc = TdRemovePc[i]
  /\ IF TdOrder[i] \in live
       THEN /\ listeners_' = TdUnregister(listeners_, TdOrder[i])
            /\ mPc' = TdResetPc[i]
       ELSE /\ mPc' = TdNextPc[i]
            /\ UNCHANGED listeners_
  /\ UNCHANGED <<extVars, FLAG, mRet, is_initialized_, is_logging_, logOpen, log, live,
                 released, calls, issued, regAt, profilerObj, tickerObj,
                 profiler_, samplerActive, ringVars, running_, insertVars,
                 nextSample, consumerVars, histVars>>

\* ... x_logger_.reset(); }  the destructor releases the listener's file
TearDownReset(i) ==
  /\ mPc = TdResetPc[i]
  /\ live' = live \ {TdOrder[i]}
  /\ released' = released \cup {TdOrder[i]}
  /\ mPc' = TdNextPc[i]
  /\ UNCHANGED <<extVars, FLAG, mRet, is_initialized_, is_logging_, logOpen, log,
                 listeners_, calls, issued, regAt, profilerObj, tickerObj,
                 profiler_, samplerActive, ringVars, running_, insertVars,
                 nextSample, consumerVars, histVars>>

\* return log_->Close();   (log.cc:2201)
TearDownClose ==
  /\ mPc = "td_close"
  /\ logOpen' = FALSE
  /\ mPc' = "closed"
  /\ UNCHANGED <<extVars, FLAG, mRet, is_initialized_, is_logging_, log, listeners_,
                 live, released, calls, issued, regAt, profilerObj,
                 tickerObj, profiler_, samplerActive, ringVars, running_,
                 insertVars, nextSample, consumerVars, histVars>>

(* ---- specification ---------------------------------------------------- *)

\* V8FileLogger::V8FileLogger (log.cc:1119-1123); no profiler exists yet
(* ---- CodeEventLogger::NameBuffer (log.cc:155-238) ---------------------- *)

\* A name buffer is the record [pos, hi, dropped]: utf8_pos_, the highest
\* index stored to so far, and whether a call stored less than it was given.
\* Every operation below maps a name buffer to the name buffer after the call.

Min(a, b) == IF a < b THEN a ELSE b

Max(a, b) == IF a > b THEN a ELSE b

\* number of characters "%d" prints for n
RECURSIVE DecLen(_)
DecLen(n) == IF n < 0 THEN 1 + DecLen(0 - n)
             ELSE IF n < 10 THEN 1 ELSE 1 + DecLen(n \div 10)

\* number of characters "%x" prints for n
RECURSIVE HexLen(_)
HexLen(n) == IF n < 16 THEN 1 ELSE 1 + HexLen(n \div 16)

\* n bytes stored at utf8_buffer_ + nb.pos; the position is not moved
Stored(nb, n) ==
  [nb EXCEPT !.hi = IF n > 0 THEN Max(nb.hi, nb.pos + n - 1) ELSE nb.hi]

\* NameBuffer::Reset
ResetKeepsPos(nb) == nb

Reset(nb) == [nb EXCEPT !.pos = 0]

\* size = std::min(size, kUtf8BufferSize - utf8_pos_);
ClampSizeNot(size, pos) == size

ClampSize(size, pos) == Min(size, kUtf8BufferSize - pos)

\* NameBuffer::AppendBytes(const char* bytes, int size)
AppendBytes(nb, size) ==
  LET n == ClampSize(size, nb.pos)
  IN  [Stored(nb, n) EXCEPT !.pos = nb.pos + n,
                            !.dropped = nb.dropped \/ n < size]

\* NameBuffer::AppendByte
AppendByte(nb) ==
  IF nb.pos >= kUtf8BufferSize THEN [nb EXCEPT !.dropped = TRUE]
  ELSE [Stored(nb, 1) EXCEPT !.pos = nb.pos + 1]

\* SNPrintF(buffer, format, n) on a buffer of `space` bytes for a text of
\* `len` characters: the number of bytes it stores (the text and a
\* terminating NUL, cut to the buffer) and the value it returns
SNPrintFStores(space, len) == Min(len + 1, space)

\* an SNPrintF that returns the number of characters it could store
SNPrintFTruncating(space, len) == Min(len, space - 1)

SNPrintF(space, len) == IF len < space THEN len ELSE -1

\* the common body of NameBuffer::AppendInt and NameBuffer::AppendHex
AppendFormatted(nb, len) ==
  LET space == kUtf8BufferSize - nb.pos
      size  == SNPrintF(space, len)
  IN  IF space <= 0 THEN [nb EXCEPT !.dropped = TRUE]
      ELSE IF size > 0 /\ nb.pos + size <= kUtf8BufferSize
           THEN [Stored(nb, SNPrintFStores(space, len)) EXCEPT
                   !.pos = nb.pos + size]
           ELSE [Stored(nb, SNPrintFStores(space, len)) EXCEPT
                   !.dropped = TRUE]

\* NameBuffer::AppendInt
AppendInt(nb, n) == AppendFormatted(nb, DecLen(n))

\* NameBuffer::AppendHex
AppendHex(nb, n) == AppendFormatted(nb, HexLen(n))

\* a String is [null, length]: length is what ToCString reports
Strings == {[null |-> TRUE, length |-> 0]}
           \cup {[null |-> FALSE, length |-> n] : n \in {0, 1, 3, MaxLen}}

\* NameBuffer::AppendString
AppendString(nb, str) ==
  IF str.null THEN nb ELSE AppendBytes(nb, str.length)

\* a Name is a String or a Symbol with an optional description and a hash
HashArgs == {0, 255, 2147483647}

Names == {[isString |-> TRUE, str |-> s, hasDescription |-> FALSE, hash |-> 0]
            : s \in Strings \ {[null |-> TRUE, length |-> 0]}}
         \cup {[isString |-> FALSE, str |-> s, hasDescription |-> d, hash |-> h]
                 : s \in {[null |-> FALSE, length |-> n] : n \in {0, 3}},
                   d \in BOOLEAN, h \in HashArgs}

\* NameBuffer::AppendName
AppendName(nb, name) ==
  IF name.isString THEN AppendString(nb, name.str)
  ELSE LET a == AppendBytes(nb, 7)                     \* "symbol("
           b == IF name.hasDescription
                THEN AppendBytes(AppendString(AppendBytes(a, 1), name.str), 2)
                ELSE a
           c == AppendBytes(b, 5)                      \* "hash "
       IN  AppendByte(AppendHex(c, name.hash))

\* strlen of the entries of kCodeTagNames
TagNameLens == {4, 6, 8, 15}

\* NameBuffer::Init
NameBufferInit(nb, tagLen) == AppendByte(AppendBytes(Reset(nb), tagLen))

IntArgs == {0, 42, -7, 65536, -2147483647}

NbInit == \E t \in TagNameLens :
  /\ name_buffer_' = NameBufferInit(name_buffer_, t)
  /\ UNCHANGED <<coreVars, auxVars, perfVars, textVars, llVars>>

NbAppendName == \E name \in Names :
  /\ name_buffer_' = AppendName(name_buffer_, name)
  /\ UNCHANGED <<coreVars, auxVars, perfVars, textVars, llVars>>

NbAppendString == \E str \in Strings :
  /\ name_buffer_' = AppendString(name_buffer_, str)
  /\ UNCHANGED <<coreVars, auxVars, perfVars, textVars, llVars>>

NbAppendBytes == \E size \in 0..MaxLen :
  /\ name_buffer_' = AppendBytes(name_buffer_, size)
  /\ UNCHANGED <<coreVars, auxVars, perfVars, textVars, llVars>>

NbAppendByte ==
  /\ name_buffer_' = AppendByte(name_buffer_)
  /\ UNCHANGED <<coreVars, auxVars, perfVars, textVars, llVars>>

NbAppendInt == \E n \in IntArgs :
  /\ name_buffer_' = AppendInt(name_buffer_, n)
  /\ UNCHANGED <<coreVars, auxVars, perfVars, textVars, llVars>>

NbAppendHex == \E n \in HashArgs :
  /\ name_buffer_' = AppendHex(name_buffer_, n)
  /\ UNCHANGED <<coreVars, auxVars, perfVars, textVars, llVars>>

(* ---- CodeEventLogger (log.cc:240-325): composing a name -------------- *)

\* The bytes of the buffer are kept next to the name buffer record: a
\* composing state is [nb, buf], nb as above and buf the stamp of each byte
\* of utf8_buffer_, [rec, ch]: the record it was stored for and what it is.

\* n bytes stored from index pos on
Fill(buf, pos, n, stamp) ==
  [i \in DOMAIN buf |-> IF pos <= i /\ i < pos + n THEN stamp ELSE buf[i]]

CelAppendBytes(st, size, stamp) ==
  [nb |-> AppendBytes(st.nb, size),
   buf |-> Fill(st.buf, st.nb.pos, ClampSize(size, st.nb.pos), stamp)]

CelAppendByte(st, stamp) ==
  [nb |-> AppendByte(st.nb),
   buf |-> Fill(st.buf, st.nb.pos,
                IF st.nb.pos >= kUtf8BufferSize THEN 0 ELSE 1, stamp)]

CelAppendFormatted(st, len, stamp) ==
  [nb |-> AppendFormatted(st.nb, len),
   buf |-> Fill(st.buf, st.nb.pos,
                IF kUtf8BufferSize - st.nb.pos <= 0 THEN 0
                ELSE SNPrintFStores(kUtf8BufferSize - st.nb.pos, len),
                stamp)]

CelAppendString(st, str, stamp) ==
  IF str.null THEN st ELSE CelAppendBytes(st, str.length, stamp)

CelAppendName(st, name, rec) ==
  IF name.isString
    THEN CelAppendString(st, name.str, [rec |-> rec, ch |-> "name"])
    ELSE LET sy == [rec |-> rec, ch |-> "symbol"]
             a == CelAppendBytes(st, 7, sy)
             b == IF name.hasDescription
                    THEN CelAppendBytes(
                           CelAppendString(CelAppendBytes(a, 1, sy),
                                           name.str, sy), 2, sy)
                    ELSE a
             c == CelAppendBytes(b, 5, sy)
         IN  CelAppendByte(CelAppendFormatted(c, HexLen(name.hash), sy), sy)

\* kCodeTagNames (log.cc:72-76): the names of some tags, and their strlen
\* the shortest and the longest tag name the callers pass; "RegExp" is the tag
\* of RegExpCodeCreateEvent
CelTags == {"Eval", "BytecodeHandler"}

TagNameLen(tag) == CASE tag = "Eval" -> 4
                     [] tag = "RegExp" -> 6
                     [] tag = "Function" -> 8
                     [] tag = "BytecodeHandler" -> 15

\* NameBuffer::Init(tag), for record rec
CelInit(st, tag, rec) ==
  CelAppendByte(
    CelAppendBytes([st EXCEPT !.nb = Reset(st.nb)], TagNameLen(tag),
                   [rec |-> rec, ch |-> tag]),
    [rec |-> rec, ch |-> ":"])

\* name_buffer_->get(), name_buffer_->size(): the name LogRecordedBuffer gets
CelName(st) == [i \in 1..st.nb.pos |-> st.buf[i - 1]]

CelNow == [nb |-> name_buffer_, buf |-> utf8_buffer_]

\* LogRecordedBuffer(code, shared, name_buffer_->get(), name_buffer_->size())
CelRecord(tag, st) ==
  /\ Len(recorded) < MaxRecords
  /\ name_buffer_' = st.nb
  /\ utf8_buffer_' = st.buf
  /\ recorded' = Append(recorded, [tag |-> tag, name |-> CelName(st),
                                   length |-> st.nb.pos])
  /\ UNCHANGED <<coreVars, auxButCel, perfVars, textVars, llVars>>

\* the lengths of comments, debug names and wasm names; ComputeMarker
\* returns "", "~", "^", "+" or "*"
CelLens == {0, 3, MaxLen}

MarkerLens == {0, 1}

CelNames == {n \in Names : n.isString => n.str.length \in {3, MaxLen}}

\* CodeCreateEvent(tag, code, comment)   (log.cc:245-252)
CelCodeCreateComment ==
  \E tag \in CelTags, len \in CelLens :
    LET rec == Len(recorded) + 1
    IN  CelRecord(tag, CelAppendBytes(CelInit(CelNow, tag, rec), len,
                                      [rec |-> rec, ch |-> "comment"]))

\* CodeCreateEvent(tag, code, name)   (log.cc:254-261)
CelCodeCreateName ==
  \E tag \in CelTags, name \in CelNames :
    LET rec == Len(recorded) + 1
    IN  CelRecord(tag, CelAppendName(CelInit(CelNow, tag, rec), name, rec))

\* CodeCreateEvent(tag, code, shared, script_name)   (log.cc:263-272)
CelCodeCreateScript ==
  \E tag \in CelTags, marker \in MarkerLens, name \in CelNames :
    LET rec == Len(recorded) + 1
        m == [rec |-> rec, ch |-> "marker"]
    IN  CelRecord(tag,
          CelAppendName(
            CelAppendByte(CelAppendBytes(CelInit(CelNow, tag, rec),
                                         marker, m), m),
            name, rec))

\* CodeCreateEvent(tag, code, shared, script_name, line, column)
\* (log.cc:274-296)
CelCodeCreateFunction ==
  \E tag \in CelTags, debug \in {3, kUtf8BufferSize - 11},
     isString \in BOOLEAN, line \in {7, 65536}, column \in {42} :
    LET rec == Len(recorded) + 1
        m == [rec |-> rec, ch |-> "function"]
        a == CelAppendByte(
               CelAppendBytes(CelAppendBytes(CelInit(CelNow, tag, rec),
                                             1, m), debug, m), m)
        b == IF isString
               THEN CelAppendString(a, [null |-> FALSE, length |-> 3], m)
               ELSE CelAppendByte(
                      CelAppendFormatted(CelAppendBytes(a, 12, m),
                                         HexLen(255), m), m)
        c == CelAppendFormatted(CelAppendByte(b, m), DecLen(line), m)
    IN  CelRecord(tag, CelAppendFormatted(CelAppendByte(c, m),
                                          DecLen(column), m))

\* RegExpCodeCreateEvent(code, source)   (log.cc:318-325)
CelRegExpCodeCreateEvent ==
  \E str \in {[null |-> FALSE, length |-> n] : n \in CelLens} :
    LET rec == Len(recorded) + 1
    IN  CelRecord("RegExp",
                  CelAppendString(CelInit(CelNow, "RegExp", rec), str,
                                  [rec |-> rec, ch |-> "source"]))

\* CodeEventLogger::CodeEventLogger (log.cc:240-241): utf8_buffer_ is not
\* initialised
CelStart ==
  /\ utf8_buffer_ = [i \in 0..(kUtf8BufferSize - 1) |->
                       [rec |-> 0, ch |-> "uninitialised"]]
  /\ recorded = <<>>

(* ---- LinuxPerfBasicLogger (log.cc:329-436) ----------------------------- *)

Isolates == 1..MaxIsolates

\* the kinds of code a code-creation event can be about; "WASM_FUNCTION" is
\* the code handed to the wasm::WasmCode overload of LogRecordedBuffer
CodeKinds == {"BUILTIN", "REGEXP", "INTERPRETED_FUNCTION", "TURBOFAN",
              "WASM_FUNCTION"}

CodeKindIsJSFunction(kind) == kind \in {"INTERPRETED_FUNCTION", "TURBOFAN"}

CodeKindIsBuiltinOrJSFunction(kind) ==
  kind = "BUILTIN" \/ CodeKindIsJSFunction(kind)

\* the test of LogRecordedBuffer(Handle<AbstractCode>, ...) that returns
\* without writing (log.cc:419-422); the wasm overload has no test
PerfFiltersOutNothing(kind) == FALSE

PerfFiltersOut(kind) ==
  /\ kind # "WASM_FUNCTION"
  /\ FLAG_perf_basic_prof_only_functions
  /\ CodeKindIsBuiltinOrJSFunction(kind)

\* if (reference_count_ == 0), the test of the destructor
IsLastLoggerNever(count) == FALSE

IsLastLogger(count) == count = 0

PerfRunning == procState = "running"

\* base::LockGuard<base::RecursiveMutex> guard_file(file_mutex_.Pointer());
PerfCtorLock(i) ==
  /\ PerfRunning
  /\ perfPc[i] = "none"
  /\ file_mutex_ = 0
  /\ file_mutex_' = i
  /\ perfPc' = [perfPc EXCEPT ![i] = "c_inc"]
  /\ UNCHANGED <<coreVars, auxVars, nameVars, textVars, llVars, FLAG_perf_basic_prof_only_functions,
                 procState, reference_count_, perf_output_handle_, perfArg,
                 perfFile, perfSkipped, perfSurvived>>

\* reference_count_++;  if (reference_count_ == 1) {
PerfCtorInc(i) ==
  /\ PerfRunning
  /\ perfPc[i] = "c_inc"
  /\ reference_count_' = reference_count_ + 1
  /\ perfPc' = [perfPc EXCEPT ![i] = IF reference_count_' = 1
                                     THEN "c_open" ELSE "c_unlock"]
  /\ UNCHANGED <<coreVars, auxVars, nameVars, textVars, llVars, FLAG_perf_basic_prof_only_functions,
                 procState, file_mutex_, perf_output_handle_, perfArg,
                 perfFile, perfSkipped, perfSurvived>>

\* CHECK_NULL(perf_output_handle_);
\* perf_output_handle_ = base::OS::FOpen(...);
\* CHECK_NOT_NULL(perf_output_handle_);
\* FOpen returns the file or, when it cannot be opened, nullptr; a failed
\* CHECK ends the process
PerfCtorOpen(i) ==
  /\ PerfRunning
  /\ perfPc[i] = "c_open"
  /\ \E opened \in {"file", "nullptr"} :
       IF perf_output_handle_ = "nullptr" /\ opened = "file"
       THEN /\ perf_output_handle_' = "file"
            /\ perfPc' = [perfPc EXCEPT ![i] = "c_unlock"]
            /\ UNCHANGED procState
       ELSE /\ procState' = "aborted"
            /\ UNCHANGED <<perf_output_handle_, perfPc>>
  /\ UNCHANGED <<coreVars, auxVars, nameVars, textVars, llVars, FLAG_perf_basic_prof_only_functions,
                 file_mutex_, reference_count_, perfArg, perfFile,
                 perfSkipped, perfSurvived>>

\* the end of the constructor releases guard_file
PerfCtorUnlock(i) ==
  /\ PerfRunning
  /\ perfPc[i] = "c_unlock"
  /\ file_mutex_' = 0
  /\ perfPc' = [perfPc EXCEPT ![i] = "alive"]
  /\ UNCHANGED <<coreVars, auxVars, nameVars, textVars, llVars, FLAG_perf_basic_prof_only_functions,
                 procState, reference_count_, perf_output_handle_, perfArg,
                 perfFile, perfSkipped, perfSurvived>>

\* LinuxPerfBasicLogger::LogRecordedBuffer, both overloads, up to the call
\* of WriteLogRecordedBuffer
PerfLogRecordedBuffer(i) ==
  /\ PerfRunning
  /\ perfPc[i] = "alive"
  /\ Len(perfFile) + Len(perfSkipped)
       + Cardinality({j \in Isolates : perfPc[j] = "write"}) < MaxLines
  /\ \E kind \in CodeKinds :
       IF PerfFiltersOut(kind)
       THEN /\ perfSkipped' = Append(perfSkipped, kind)
            /\ UNCHANGED <<perfPc, perfArg>>
       ELSE /\ perfPc' = [perfPc EXCEPT ![i] = "write"]
            /\ perfArg' = [perfArg EXCEPT ![i] = kind]
            /\ UNCHANGED perfSkipped
  /\ UNCHANGED <<coreVars, auxVars, nameVars, textVars, llVars, FLAG_perf_basic_prof_only_functions,
                 procState, file_mutex_, reference_count_,
                 perf_output_handle_, perfFile, perfSurvived>>

\* LinuxPerfBasicLogger::WriteLogRecordedBuffer:
\* base::OS::FPrint(perf_output_handle_, ...), with no lock taken; printing
\* to a null FILE* is undefined and modelled as a fault
PerfWrite(i) ==
  /\ PerfRunning
  /\ perfPc[i] = "write"
  /\ IF perf_output_handle_ = "file"
     THEN /\ perfFile' = Append(perfFile,
                [by |-> i, kind |-> perfArg[i],
                 afterSurvival |-> perfSurvived])
          /\ perfPc' = [perfPc EXCEPT ![i] = "alive"]
          /\ UNCHANGED procState
     ELSE /\ procState' = "faulted"
          /\ UNCHANGED <<perfFile, perfPc>>
  /\ UNCHANGED <<coreVars, auxVars, nameVars, textVars, llVars, FLAG_perf_basic_prof_only_functions,
                 file_mutex_, reference_count_, perf_output_handle_, perfArg,
                 perfSkipped, perfSurvived>>

\* base::LockGuard<base::RecursiveMutex> guard_file(file_mutex_.Pointer());
PerfDtorLock(i) ==
  /\ PerfRunning
  /\ perfPc[i] = "alive"
  /\ file_mutex_ = 0
  /\ file_mutex_' = i
  /\ perfPc' = [perfPc EXCEPT ![i] = "d_dec"]
  /\ UNCHANGED <<coreVars, auxVars, nameVars, textVars, llVars, FLAG_perf_basic_prof_only_functions,
                 procState, reference_count_, perf_output_handle_, perfArg,
                 perfFile, perfSkipped, perfSurvived>>

\* reference_count_--;  if (reference_count_ == 0) {
PerfDtorDec(i) ==
  /\ PerfRunning
  /\ perfPc[i] = "d_dec"
  /\ reference_count_' = reference_count_ - 1
  /\ perfPc' = [perfPc EXCEPT ![i] = IF IsLastLogger(reference_count_')
                                     THEN "d_close" ELSE "d_unlock"]
  /\ perfSurvived' = (perfSurvived \/ reference_count_' > 0)
  /\ UNCHANGED <<coreVars, auxVars, nameVars, textVars, llVars, FLAG_perf_basic_prof_only_functions,
                 procState, file_mutex_, perf_output_handle_, perfArg,
                 perfFile, perfSkipped>>

\* CHECK_NOT_NULL(perf_output_handle_); base::Fclose(perf_output_handle_);
\* perf_output_handle_ = nullptr;
PerfDtorClose(i) ==
  /\ PerfRunning
  /\ perfPc[i] = "d_close"
  /\ IF perf_output_handle_ = "file"
     THEN /\ perf_output_handle_' = "nullptr"
          /\ perfPc' = [perfPc EXCEPT ![i] = "d_unlock"]
          /\ UNCHANGED procState
     ELSE /\ procState' = "aborted"
          /\ UNCHANGED <<perf_output_handle_, perfPc>>
  /\ UNCHANGED <<coreVars, auxVars, nameVars, textVars, llVars, FLAG_perf_basic_prof_only_functions,
                 file_mutex_, reference_count_, perfArg, perfFile,
                 perfSkipped, perfSurvived>>

\* the end of the destructor releases guard_file
PerfDtorUnlock(i) ==
  /\ PerfRunning
  /\ perfPc[i] = "d_unlock"
  /\ file_mutex_' = 0
  /\ perfPc' = [perfPc EXCEPT ![i] = "none"]
  /\ UNCHANGED <<coreVars, auxVars, nameVars, textVars, llVars, FLAG_perf_basic_prof_only_functions,
                 procState, reference_count_, perf_output_handle_, perfArg,
                 perfFile, perfSkipped, perfSurvived>>

\* the static initialisers (log.cc:364-368); no logger exists
PerfStatics ==
  /\ procState = "running"
  /\ file_mutex_ = 0
  /\ reference_count_ = 0
  /\ perf_output_handle_ = "nullptr"
  /\ perfPc = [i \in Isolates |-> "none"]
  /\ perfArg = [i \in Isolates |-> "BUILTIN"]
  /\ perfFile = <<>>
  /\ perfSkipped = <<>>
  /\ perfSurvived = FALSE

(* ---- the text encoder and the shared log (log.cc:1113-1117, 1210-1214, -- *)
(* ---- 1377-1900, 2204-2213) -------------------------------------------- *)

\* the producer thread issues code events, the consumer thread Tick records
TextThreads == {"producer", "consumer"}

\* the event entry points of V8FileLogger
TextKinds == {"code-create", "code-move", "disable-opt", "callback", "deopt",
              "tick", "script", "function", "map", "ic"}

KindsOf(t) == IF t = "consumer" THEN {"tick"} ELSE TextKinds \ {"tick"}

\* V8FileLogger::is_logging
IsLogging == IF is_profiling THEN FALSE ELSE is_logging_

\* CodeDeoptEvent and CodeDependencyChangeEvent test is_logging() themselves
\* before they reach MSG_BUILDER (log.cc:1586, 1595)
TestsIsLoggingItself(kind) == kind = "deopt"

\* LogFile::NewMessageBuilder returns a null builder when logging is disabled
NewMessageBuilderFailsNever == FALSE

NewMessageBuilderFails == ~IsLogging

\* base::MutexGuard guard(log_->mutex()) can proceed
MutexAvailableAlways(holder) == TRUE

MutexAvailable(holder) == holder = "none"

\* An entry point is called.  Its own tests come first: `pre` is the outcome
\* of the flag tests and of is_listening_to_code_events(), and the deopt
\* events test is_logging().  Then MSG_BUILDER() asks for a message builder
\* and returns when there is none.
TextEvent(t) ==
  /\ textPc[t] = "idle"
  /\ textCalls < MaxCalls
  /\ textCalls' = textCalls + 1
  /\ \E kind \in KindsOf(t), pre \in BOOLEAN :
       IF \/ ~pre
          \/ (TestsIsLoggingItself(kind) /\ ~IsLogging)
          \/ NewMessageBuilderFails
       THEN /\ textMade' = textMade \cup
                 {[call |-> textCalls', enabled |-> IsLogging,
                   entered |-> FALSE]}
            /\ UNCHANGED <<textPc, textKind>>
       ELSE /\ textPc' = [textPc EXCEPT ![t] = "lock"]
            /\ textKind' = [textKind EXCEPT ![t] =
                              [kind |-> kind, call |-> textCalls']]
            /\ textMade' = textMade \cup
                 {[call |-> textCalls', enabled |-> IsLogging,
                   entered |-> TRUE]}
  /\ UNCHANGED <<coreVars, auxVars, nameVars, perfVars, llVars, is_profiling, mutex_,
                 textValue, format_buffer_>>

\* the message builder takes the guard of the log for as long as it exists
TextLock(t) ==
  /\ textPc[t] = "lock"
  /\ MutexAvailable(mutex_)
  /\ mutex_' = t
  /\ textPc' = [textPc EXCEPT ![t] = "field1"]
  /\ UNCHANGED <<coreVars, auxVars, nameVars, perfVars, llVars, is_profiling, textKind,
                 textValue, format_buffer_, textCalls, textMade>>

\* msg << field: one field of the record is appended to the message
TextField(t) ==
  /\ textPc[t] \in {"field1", "field2"}
  /\ format_buffer_' = Append(format_buffer_,
       [by |-> t, kind |-> textKind[t].kind, call |-> textKind[t].call])
  /\ textPc' = [textPc EXCEPT ![t] = IF textPc[t] = "field1" THEN "field2"
                                                              ELSE "write"]
  /\ UNCHANGED <<coreVars, auxVars, nameVars, perfVars, llVars, is_profiling, mutex_,
                 textKind, textValue, textCalls, textMade>>

\* msg.WriteToLogFile(): the message goes to the log as one record
TextWriteToLogFile(t) ==
  /\ textPc[t] = "write"
  /\ log' = Append(log, format_buffer_)
  /\ format_buffer_' = <<>>
  /\ textPc' = [textPc EXCEPT ![t] = "release"]
  /\ UNCHANGED <<coreButLog, auxVars, is_logging_, nameVars, perfVars, llVars, is_profiling,
                 mutex_, textKind, textValue, textCalls, textMade>>

\* the message builder goes out of scope at the end of the entry point
TextRelease(t) ==
  /\ textPc[t] = "release"
  /\ mutex_' = IF mutex_ = t THEN "none" ELSE mutex_
  /\ textPc' = [textPc EXCEPT ![t] = "idle"]
  /\ UNCHANGED <<coreVars, auxVars, nameVars, perfVars, llVars, is_profiling, textKind,
                 textValue, format_buffer_, textCalls, textMade>>

\* V8FileLogger::UpdateIsLogging(value), called by SetUp and by
\* TearDownAndGetLogFile on the producer thread:
\* base::MutexGuard guard(log_->mutex());
UpdateIsLoggingLock ==
  /\ textPc["producer"] = "idle"
  /\ textCalls < MaxCalls
  /\ MutexAvailable(mutex_)
  /\ mutex_' = "producer"
  /\ \E value \in BOOLEAN : textValue' = value
  /\ textPc' = [textPc EXCEPT !["producer"] = "store"]
  /\ UNCHANGED <<coreVars, auxVars, nameVars, perfVars, llVars, is_profiling, textKind,
                 format_buffer_, textCalls, textMade>>

\* is_logging_.store(value, std::memory_order_relaxed); and the guard ends
UpdateIsLoggingStore ==
  /\ textPc["producer"] = "store"
  /\ is_logging_' = textValue
  /\ mutex_' = IF mutex_ = "producer" THEN "none" ELSE mutex_
  /\ textPc' = [textPc EXCEPT !["producer"] = "idle"]
  /\ UNCHANGED <<coreButLog, auxVars, log, nameVars, perfVars, llVars, is_profiling, textKind,
                 textValue, format_buffer_, textCalls, textMade>>

\* the CPU profiler is started or stopped (isolate_->is_profiling())
SetProfiling ==
  /\ textCalls < MaxCalls
  /\ is_profiling' = ~is_profiling
  /\ UNCHANGED <<coreVars, auxVars, nameVars, perfVars, llVars, mutex_, textPc, textKind,
                 textValue, format_buffer_, textCalls, textMade>>

TextStart ==
  /\ is_profiling = FALSE
  /\ mutex_ = "none"
  /\ textPc = [t \in TextThreads |-> "idle"]
  /\ textKind = [t \in TextThreads |-> [kind |-> "tick", call |-> 0]]
  /\ textValue = FALSE
  /\ format_buffer_ = <<>>
  /\ textCalls = 0
  /\ textMade = {}

(* ---- V8FileLogger::CodeCreateEvent (log.cc:1377-1402) ----------------- *)

\* the lengths of the names handed to CodeCreateEvent: one that fills a
\* NameBuffer exactly and one that is longer than a NameBuffer
CcNameLens == {kUtf8BufferSize, MaxLen}

CcTags == {"kBuiltin", "kFunction"}

\* msg << name: what the message builder keeps of a name of len characters
MessageAppendStringClamped(len) == Min(len, kUtf8BufferSize)

MessageAppendString(len) == len

\* CodeCreateEvent(tag, code, name) is called: the tests of
\* is_listening_to_code_events() and FLAG_log_code (pre), then MSG_BUILDER()
CcEvent(t, tag, len) ==
  /\ textPc[t] = "idle"
  /\ textCalls < MaxCalls
  /\ textCalls' = textCalls + 1
  /\ ccAsked' = ccAsked @@ (textCalls' :> [tag |-> tag, len |-> len])
  /\ \E pre \in BOOLEAN :
       IF ~pre \/ NewMessageBuilderFails
       THEN /\ textMade' = textMade \cup
                 {[call |-> textCalls', enabled |-> IsLogging,
                   entered |-> FALSE]}
            /\ UNCHANGED <<textPc, textKind>>
       ELSE /\ textPc' = [textPc EXCEPT ![t] = "cc_lock"]
            /\ textKind' = [textKind EXCEPT ![t] =
                              [kind |-> "code-create", call |-> textCalls']]
            /\ textMade' = textMade \cup
                 {[call |-> textCalls', enabled |-> IsLogging,
                   entered |-> TRUE]}
  /\ UNCHANGED <<coreVars, auxButCc, nameVars, perfVars, llVars, is_profiling,
                 mutex_, textValue, format_buffer_>>

\* the message builder of CodeCreateEvent takes the guard of the log
CcLock(t) ==
  /\ textPc[t] = "cc_lock"
  /\ MutexAvailable(mutex_)
  /\ mutex_' = t
  /\ textPc' = [textPc EXCEPT ![t] = "cc_header"]
  /\ UNCHANGED <<coreVars, auxVars, nameVars, perfVars, llVars, is_profiling,
                 textKind, textValue, format_buffer_, textCalls, textMade>>

\* AppendCodeCreateHeader (log.cc:1240-1257): event, tag, kind, time,
\* address and size, each followed by kNext
CcHeader(t) ==
  /\ textPc[t] = "cc_header"
  /\ format_buffer_' = Append(format_buffer_,
       [by |-> t, kind |-> "code-create", call |-> textKind[t].call,
        part |-> "header", tag |-> ccAsked[textKind[t].call].tag, len |-> 0])
  /\ textPc' = [textPc EXCEPT ![t] = "cc_name"]
  /\ UNCHANGED <<coreVars, auxVars, nameVars, perfVars, llVars, is_profiling,
                 mutex_, textKind, textValue, textCalls, textMade>>

\* msg << name;   (log.cc:1385, 1398)
CcName(t) ==
  /\ textPc[t] = "cc_name"
  /\ format_buffer_' = Append(format_buffer_,
       [by |-> t, kind |-> "code-create", call |-> textKind[t].call,
        part |-> "name", tag |-> ccAsked[textKind[t].call].tag,
        len |-> MessageAppendString(ccAsked[textKind[t].call].len)])
  /\ textPc' = [textPc EXCEPT ![t] = "cc_write"]
  /\ UNCHANGED <<coreVars, auxVars, nameVars, perfVars, llVars, is_profiling,
                 mutex_, textKind, textValue, textCalls, textMade>>

\* msg.WriteToLogFile(): the message and a newline go to the log
CcWrite(t) ==
  /\ textPc[t] = "cc_write"
  /\ log' = Append(log, Append(format_buffer_,
       [by |-> t, kind |-> "code-create", call |-> textKind[t].call,
        part |-> "newline", tag |-> ccAsked[textKind[t].call].tag,
        len |-> 1]))
  /\ format_buffer_' = <<>>
  /\ textPc' = [textPc EXCEPT ![t] = "cc_release"]
  /\ UNCHANGED <<coreButLog, auxVars, is_logging_, nameVars, perfVars, llVars,
                 is_profiling, mutex_, textKind, textValue, textCalls,
                 textMade>>

\* the inner block of CodeCreateEvent ends and the builder with it
CcRelease(t) ==
  /\ textPc[t] = "cc_release"
  /\ mutex_' = IF mutex_ = t THEN "none" ELSE mutex_
  /\ textPc' = [textPc EXCEPT ![t] = "cc_disassemble"]
  /\ UNCHANGED <<coreVars, auxVars, nameVars, perfVars, llVars, is_profiling,
                 textKind, textValue, format_buffer_, textCalls, textMade>>

\* LogCodeDisassemble(code) (log.cc:1349-1375): returns at once without
\* --log-code-disassemble and without a builder, else writes a record of
\* its own
CcLogCodeDisassemble(t) ==
  /\ textPc[t] = "cc_disassemble"
  /\ \E FLAG_log_code_disassemble \in BOOLEAN :
       IF ~FLAG_log_code_disassemble \/ NewMessageBuilderFails
         THEN /\ textPc' = [textPc EXCEPT ![t] = "idle"]
              /\ UNCHANGED textKind
         ELSE /\ textPc' = [textPc EXCEPT ![t] = "lock"]
              /\ textKind' = [textKind EXCEPT ![t] =
                                [kind |-> "code-disassemble",
                                 call |-> textKind[t].call]]
  /\ UNCHANGED <<coreVars, auxVars, nameVars, perfVars, llVars, is_profiling,
                 mutex_, textValue, format_buffer_, textCalls, textMade>>

CcStart == ccAsked = <<>>

(* ---- CodeLinePosInfoRecordEvent and the JitLogger (log.cc:887-924, ---- *)
(* ---- 1602-1628) -------------------------------------------------------- *)

\* source position tables: the entry at index i has code offset i and
\* script offset 10 * i, and is a statement or not
RECURSIVE TablesOfLen(_)
TablesOfLen(n) ==
  IF n = 0 THEN {<<>>}
  ELSE {Append(t, [code_offset |-> n, position |-> 10 * n,
                   is_statement |-> b]) : t \in TablesOfLen(n - 1),
                                          b \in BOOLEAN}

\* the empty table and the tables of full length
Tables == TablesOfLen(0) \cup TablesOfLen(MaxTable)

\* the code type is handed through to every event as it is
JitCodeTypes == {"JIT_CODE"}

\* what the handler leaves in event.user_data of the start event; the
\* JitCodeEvent is not initialised, so a handler that does not store to it
\* leaves whatever was there
UserData == {"data1", "indeterminate"}

\* the JitLogger exists: jit_logger_ is non-null
JitLoggerInstalled == "jit" \in live

\* JitLogger::AddCodeLinePosInfoEvent (log.cc:887-901): the event handed to
\* the handler
LinePosEvent(data, entry, position_type, code_type, call) ==
  [type |-> "CODE_ADD_LINE_POS_INFO", code_type |-> code_type,
   user_data |-> data, offset |-> entry.code_offset,
   pos |-> entry.position, position_type |-> position_type, call |-> call]

\* one turn of the loop that forgets the POSITION event of a statement
LoopEventsStatementOnly(data, entry, code_type, call) ==
  IF entry.is_statement
    THEN <<LinePosEvent(data, entry, "STATEMENT_POSITION", code_type, call)>>
    ELSE <<LinePosEvent(data, entry, "POSITION", code_type, call)>>

\* one turn of the loop of CodeLinePosEvent (log.cc:1607-1617)
LoopEvents(data, entry, code_type, call) ==
  (IF entry.is_statement
     THEN <<LinePosEvent(data, entry, "STATEMENT_POSITION", code_type, call)>>
     ELSE <<>>)
  \o <<LinePosEvent(data, entry, "POSITION", code_type, call)>>

\* CodeLinePosInfoRecordEvent (log.cc:1622-1628) up to and including
\* StartCodePosInfoEvent (log.cc:903-911): without a JitLogger it returns
JitStartCodePosInfoEvent(table, code_type) ==
  /\ jitPc = "idle"
  /\ Len(jitCalls) < MaxJitCalls
  /\ \E data \in UserData :
       LET call == Len(jitCalls) + 1 IN
       IF JitLoggerInstalled
         THEN /\ jitDelivered' = Append(jitDelivered,
                   [type |-> "CODE_START_LINE_INFO_RECORDING",
                    code_type |-> code_type, call |-> call])
              /\ jit_handler_data' = data
              /\ jitIter' = table
              /\ jitPc' = "loop"
              /\ jitCalls' = Append(jitCalls,
                   [table |-> table, code_type |-> code_type,
                    installed |-> TRUE, user_data |-> data, done |-> FALSE])
         ELSE /\ jitCalls' = Append(jitCalls,
                   \* the table is not looked at
                   [table |-> <<>>, code_type |-> code_type,
                    installed |-> FALSE, user_data |-> "none",
                    done |-> TRUE])
              /\ UNCHANGED <<jitPc, jitIter, jit_handler_data, jitDelivered>>
  /\ UNCHANGED <<coreVars, encVars, auxButJit>>

\* for (; !iter.done(); iter.Advance()) { ... }: one turn
JitAddCodeLinePosInfoEvent ==
  /\ jitPc = "loop"
  /\ jitIter # <<>>
  /\ jitDelivered' = jitDelivered
       \o LoopEvents(jit_handler_data, Head(jitIter),
                     jitCalls[Len(jitCalls)].code_type, Len(jitCalls))
  /\ jitIter' = Tail(jitIter)
  /\ UNCHANGED <<coreVars, encVars, auxButJit, jitPc, jit_handler_data,
                 jitCalls>>

\* jit_logger.EndCodePosInfoEvent(code_start, jit_handler_data, code_type)
\* (log.cc:913-924)
JitEndCodePosInfoEvent ==
  /\ jitPc = "loop"
  /\ jitIter = <<>>
  /\ jitDelivered' = Append(jitDelivered,
       [type |-> "CODE_END_LINE_INFO_RECORDING",
        code_type |-> jitCalls[Len(jitCalls)].code_type,
        user_data |-> jit_handler_data, call |-> Len(jitCalls)])
  /\ jitCalls' = [jitCalls EXCEPT ![Len(jitCalls)].done = TRUE]
  /\ jitPc' = "idle"
  /\ UNCHANGED <<coreVars, encVars, auxButJit, jitIter, jit_handler_data>>

JitStart ==
  /\ jitPc = "idle"
  /\ jitIter = <<>>
  /\ jit_handler_data = "none"
  /\ jitDelivered = <<>>
  /\ jitCalls = <<>>

(* ---- V8FileLogger::EnsureLogScriptSource (log.cc:1757-1786) ------------ *)

Scripts == 1..MaxScripts

\* an EnsureLogScriptSource that never finds the id
AlreadyLoggedNever(script, logged) == FALSE

\* logged_source_code_.find(script_id) != logged_source_code_.end()
\* (log.cc:1760)
AlreadyLogged(script, logged) == script \in logged

\* the body of EnsureLogScriptSource(script) run on the log lg, where
\* source_is_string tells whether script.source() is a string at the time of
\* the call (the source is a field of the script and can be set between
\* calls); after is what the caller writes once the call has returned
EnsureLogScriptSourceFrom(lg, script, source_is_string, after) ==
  IF AlreadyLogged(script, logged_source_code_)
    THEN \* if (logged_source_code_.find(script_id) != end) return true;
         /\ ensureCalls' = Append(ensureCalls,
              [script |-> script, returned |-> TRUE, wrote |-> FALSE])
         /\ log' = lg \o after
         /\ UNCHANGED logged_source_code_
    ELSE /\ logged_source_code_' = logged_source_code_ \cup {script}
         /\ IF ~source_is_string \/ ~LogEnabled
              THEN \* if (!source_object.IsString()) return false;
                   \* if (!msg_ptr) return false;
                   /\ ensureCalls' = Append(ensureCalls,
                        [script |-> script, returned |-> FALSE,
                         wrote |-> FALSE])
                   /\ log' = lg \o after
              ELSE /\ log' = Append(lg, [ev |-> "script-source",
                                         script |-> script]) \o after
                   /\ ensureCalls' = Append(ensureCalls,
                        [script |-> script, returned |-> TRUE,
                         wrote |-> TRUE])

\* EnsureLogScriptSource(script) called on its own
EnsureLogScriptSource(script, source_is_string) ==
  /\ mPc \in {"new", "ready", "closed"}
  /\ Len(ensureCalls) < MaxEnsureCalls
  /\ EnsureLogScriptSourceFrom(log, script, source_is_string, <<>>)
  /\ UNCHANGED <<coreButLog, is_logging_, encVars, auxButSrc>>

\* V8FileLogger::ScriptDetails(script) (log.cc:1738-1755), where
\* log_function_events is the flag at the time of the call
ScriptDetails(script, source_is_string, log_function_events) ==
  /\ mPc \in {"new", "ready", "closed"}
  /\ Len(ensureCalls) < MaxEnsureCalls
  /\ IF ~log_function_events
       THEN UNCHANGED <<log, logged_source_code_, ensureCalls>>
       ELSE EnsureLogScriptSourceFrom(
              IF LogEnabled
                THEN Append(log, [ev |-> "script-details",
                                  script |-> script])
                ELSE log,
              script, source_is_string, <<>>)
  /\ UNCHANGED <<coreButLog, is_logging_, encVars, auxButSrc>>

\* V8FileLogger::LogSourceCodeInformation(code, shared) (log.cc:1282-1340),
\* where is_script tells whether shared->script() is a script
LogSourceCodeInformation(script, source_is_string, is_script) ==
  /\ mPc \in {"new", "ready", "closed"}
  /\ Len(ensureCalls) < MaxEnsureCalls
  /\ IF ~is_script
       THEN UNCHANGED <<log, logged_source_code_, ensureCalls>>
       ELSE EnsureLogScriptSourceFrom(
              log, script, source_is_string,
              IF LogEnabled
                THEN <<[ev |-> "code-source-info", script |-> script]>>
                ELSE <<>>)
  /\ UNCHANGED <<coreButLog, is_logging_, encVars, auxButSrc>>

SrcStart ==
  /\ logged_source_code_ = {}
  /\ ensureCalls = <<>>

(* ---- the message builders of the text encoder's operations ------------ *)
(* ---- (log.cc:1113-1117, 1282-1423, 1738-1904) -------------------------- *)

\* the steps an operation is made of: an early return on a flag or an
\* argument, a call, a call made on a condition, MSG_BUILDER(), the fields
\* and WriteToLogFile, the end of the scope the builder lives in, and the body
\* of Isolate::GetAbstractPC
Guard == [k |-> "guard", f |-> "none"]

Call(f) == [k |-> "call", f |-> f]

Opt(f) == [k |-> "opt", f |-> f]

Builder == [k |-> "builder", f |-> "none"]

Write == [k |-> "write", f |-> "none"]

Release == [k |-> "release", f |-> "none"]

Gc == [k |-> "gc", f |-> "none"]

\* an operation that is one message
OneMessage == <<Guard, Builder, Write, Release>>

\* ICEvent with GetAbstractPC called under the message builder
ICEventStepsPcUnderBuilder ==
  <<Guard, Builder, Call("GetAbstractPC"), Write, Release>>

\* V8FileLogger::ICEvent (log.cc:1822-1849)
ICEventSteps == <<Guard, Call("GetAbstractPC"), Builder, Write, Release>>

\* V8FileLogger::MapEvent (log.cc:1851-1882)
MapEventSteps ==
  <<Guard, Opt("MapDetails"), Opt("GetAbstractPC"), Builder, Write, Release>>

\* V8FileLogger::TickEvent (log.cc:1799-1820)
TickEventSteps ==
  <<Guard, Opt("RuntimeCallTimerEvent"), Builder, Write, Release>>

\* V8FileLogger::CodeCreateEvent with a SharedFunctionInfo (log.cc:1405-1423,
\* 1456-1473): the builder lives in an inner block
CodeCreateEventSteps ==
  <<Guard, Builder, Write, Release, Call("LogSourceCodeInformation"),
    Call("LogCodeDisassemble")>>

\* V8FileLogger::LogSourceCodeInformation (log.cc:1282-1347)
LogSourceCodeInformationSteps ==
  <<Guard, Call("EnsureLogScriptSource"), Builder, Write, Release>>

\* V8FileLogger::ScriptDetails (log.cc:1738-1755)
ScriptDetailsSteps ==
  <<Guard, Builder, Write, Release, Call("EnsureLogScriptSource")>>

\* the operations a caller begins
LkEntryOps ==
  {"TickEvent", "ICEvent", "MapEvent", "CodeCreateEvent", "ScriptDetails",
   "CodeMoveEvent"}

Steps(fn) ==
  CASE fn = "ICEvent" -> ICEventSteps
    [] fn = "MapEvent" -> MapEventSteps
    [] fn = "TickEvent" -> TickEventSteps
    [] fn = "CodeCreateEvent" -> CodeCreateEventSteps
    [] fn = "LogSourceCodeInformation" -> LogSourceCodeInformationSteps
    [] fn = "ScriptDetails" -> ScriptDetailsSteps
    [] fn = "GetAbstractPC" -> <<Gc>>
    \* MapDetails, RuntimeCallTimerEvent, LogCodeDisassemble,
    \* EnsureLogScriptSource, CodeMoveEvent (through MoveEventInternal)
    [] OTHER -> OneMessage

LkDepth == Len(lkStack)

LkStep ==
  LET top == lkStack[LkDepth] IN
  IF top.pc <= Len(Steps(top.fn)) THEN Steps(top.fn)[top.pc]
  ELSE [k |-> "return", f |-> "none"]

LkRunning == LkDepth > 0 /\ ~lkDead

LkAdvanced == [lkStack EXCEPT ![LkDepth].pc = @ + 1]

LkPopped == SubSeq(lkStack, 1, LkDepth - 1)

\* a caller begins an operation
LkBegin(fn) ==
  /\ LkDepth = 0
  /\ lkOps < MaxLkOps
  /\ lkStack' = <<[fn |-> fn, pc |-> 1]>>
  /\ lkOps' = lkOps + 1
  /\ UNCHANGED <<coreVars, encVars, auxButLk, lkHolder, lkDead, lkCalled>>

\* if (!FLAG_...) return; and the like: the function returns or goes on
LkGuard(returns) ==
  /\ LkRunning
  /\ LkStep.k = "guard"
  /\ lkStack' = IF returns THEN LkPopped ELSE LkAdvanced
  /\ UNCHANGED <<coreVars, encVars, auxButLk, lkHolder, lkDead, lkCalled,
                 lkOps>>

\* a call of another function of the encoder; a call made on a condition is
\* made or not
LkCall(made) ==
  /\ LkRunning
  /\ LkStep.k \in {"call", "opt"}
  /\ LkStep.k = "call" => made
  /\ IF made
       THEN /\ lkStack' = Append(LkAdvanced, [fn |-> LkStep.f, pc |-> 1])
            /\ lkCalled' = lkCalled \cup {LkStep.f}
       ELSE /\ lkStack' = LkAdvanced
            /\ UNCHANGED lkCalled
  /\ UNCHANGED <<coreVars, encVars, auxButLk, lkHolder, lkDead, lkOps>>

\* Isolate::GetAbstractPC "can GC, which might attempt to get the log lock
\* again" (log.cc:1828-1829): the collector reports a moved code object
LkGetAbstractPC(gc) ==
  /\ LkRunning
  /\ LkStep.k = "gc"
  /\ IF gc
       THEN /\ lkStack' = Append(LkAdvanced, [fn |-> "CodeMoveEvent", pc |-> 1])
            /\ lkCalled' = lkCalled \cup {"CodeMoveEvent"}
       ELSE /\ lkStack' = LkAdvanced
            /\ UNCHANGED lkCalled
  /\ UNCHANGED <<coreVars, encVars, auxButLk, lkHolder, lkDead, lkOps>>

\* MSG_BUILDER() (log.cc:1113-1117): without logging there is no builder and
\* the function returns; otherwise the builder takes the log lock, which is
\* not recursive: a thread that holds it waits for itself
LkNewMessageBuilder(enabled) ==
  /\ LkRunning
  /\ LkStep.k = "builder"
  /\ IF ~enabled
       THEN /\ lkStack' = LkPopped
            /\ UNCHANGED <<lkHolder, lkDead>>
       ELSE IF lkHolder # 0
              THEN /\ lkDead' = TRUE
                   /\ UNCHANGED <<lkStack, lkHolder>>
              ELSE /\ lkHolder' = LkDepth
                   /\ lkStack' = LkAdvanced
                   /\ UNCHANGED lkDead
  /\ UNCHANGED <<coreVars, encVars, auxButLk, lkCalled, lkOps>>

\* msg << ...; msg.WriteToLogFile();
LkWriteToLogFile ==
  /\ LkRunning
  /\ LkStep.k = "write"
  /\ lkStack' = LkAdvanced
  /\ UNCHANGED <<coreVars, encVars, auxButLk, lkHolder, lkDead, lkCalled,
                 lkOps>>

\* the builder's scope ends: its destructor gives the lock back
LkRelease ==
  /\ LkRunning
  /\ LkStep.k = "release"
  /\ lkHolder' = 0
  /\ lkStack' = LkAdvanced
  /\ UNCHANGED <<coreVars, encVars, auxButLk, lkDead, lkCalled, lkOps>>

\* the function returns to its caller
LkReturn ==
  /\ LkRunning
  /\ LkStep.k = "return"
  /\ lkStack' = LkPopped
  /\ UNCHANGED <<coreVars, encVars, auxButLk, lkHolder, lkDead, lkCalled,
                 lkOps>>

LkStart ==
  /\ lkStack = <<>>
  /\ lkHolder = 0
  /\ lkDead = FALSE
  /\ lkCalled = {}
  /\ lkOps = 0

(* ---- PrepareLogFileName (log.cc:2012-2059) ----------------------------- *)

NUL == "NUL"

\* the characters of a file name: the placeholder sign, the two letters that
\* make a placeholder, a directory separator and one more
FileChars == {"%", "p", "t", "/", "a"}

RECURSIVE FileNamesOfLen(_)
FileNamesOfLen(n) ==
  IF n = 0 THEN {<<>>}
  ELSE {Append(s, c) : s \in FileNamesOfLen(n - 1), c \in FileChars}

FileNames == UNION {FileNamesOfLen(n) : n \in 0..MaxFileName}

\* base::OS::isDirectorySeparator
IsDirectorySeparator(c) == c = "/"

\* *p for p inside the string and at its terminator
CharAt(name, p) == IF p <= Len(name) THEN name[p] ELSE NUL

\* the first loop (log.cc:2019-2022)
DirSeparatorCount(name) ==
  Cardinality({i \in 1..Len(name) : IsDirectorySeparator(name[i])})

\* the switch that never backs up at the end of the string
AfterPercentNoBackUp(c) ==
  CASE c = NUL -> [out |-> <<>>, back |-> 0]
    [] c = "p" -> [out |-> <<"pid">>, back |-> 0]
    [] c = "t" -> [out |-> <<"time">>, back |-> 0]
    [] c = "%" -> [out |-> <<"%">>, back |-> 0]
    [] OTHER -> [out |-> <<"%", c>>, back |-> 0]

\* switch (*p) after a '%' (log.cc:2031-2053): what goes to os, and by how
\* much p is backed up
AfterPercent(c) ==
  CASE c = NUL -> [out |-> <<>>, back |-> 1]
    [] c = "p" -> [out |-> <<"pid">>, back |-> 0]
    [] c = "t" -> [out |-> <<"time">>, back |-> 0]
    [] c = "%" -> [out |-> <<"%">>, back |-> 0]
    [] OTHER -> [out |-> <<"%", c>>, back |-> 0]

\* AddIsolateIdIfNeeded (log.cc:2012-2015)
AddIsolateIdIfNeeded(per_isolate) ==
  IF per_isolate THEN <<"isolate-id">> ELSE <<>>

\* PrepareLogFileName is called: the separators are counted
PfnCall(file_name, per_isolate) ==
  /\ pfnPc \in {"idle", "done"}
  /\ pfnName' = file_name
  /\ pfnPerIso' = per_isolate
  /\ pfnP' = 1
  /\ pfnCount' = DirSeparatorCount(file_name)
  /\ pfnOut' = <<>>
  /\ pfnHi' = Len(file_name) + 1
  /\ pfnPc' = "loop"
  /\ UNCHANGED <<coreVars, encVars, auxButPfn>>

\* one turn of the second loop (log.cc:2024-2058), p++ included; a read
\* beyond the terminator is recorded in pfnHi
PfnLoop ==
  /\ pfnPc = "loop"
  /\ CharAt(pfnName, pfnP) # NUL
  /\ LET id == IF pfnCount = 0 THEN AddIsolateIdIfNeeded(pfnPerIso) ELSE <<>>
         count1 == IF pfnCount = 0 THEN pfnCount - 1 ELSE pfnCount
         c == CharAt(pfnName, pfnP)
     IN IF c = "%"
          THEN LET a == AfterPercent(CharAt(pfnName, pfnP + 1)) IN
               /\ pfnOut' = pfnOut \o id \o a.out
               /\ pfnP' = pfnP + 1 - a.back + 1
               /\ pfnCount' = count1
               /\ pfnHi' = Max(pfnHi, pfnP + 1 - a.back + 1)
          ELSE /\ pfnOut' = pfnOut \o id \o <<c>>
               /\ pfnP' = pfnP + 1
               /\ pfnCount' = IF IsDirectorySeparator(c) THEN count1 - 1
                                                         ELSE count1
               /\ pfnHi' = Max(pfnHi, pfnP + 1)
  /\ UNCHANGED <<coreVars, encVars, auxButPfn, pfnPc, pfnName, pfnPerIso>>

\* *p is the terminator: the loop and the function end
PfnReturn ==
  /\ pfnPc = "loop"
  /\ CharAt(pfnName, pfnP) = NUL
  /\ pfnPc' = "done"
  /\ UNCHANGED <<coreVars, encVars, auxButPfn, pfnName, pfnPerIso, pfnP,
                 pfnCount, pfnOut, pfnHi>>

PfnStart ==
  /\ pfnPc = "idle"
  /\ pfnName = <<>>
  /\ pfnPerIso = FALSE
  /\ pfnP = 1
  /\ pfnCount = 0
  /\ pfnOut = <<>>
  /\ pfnHi = 1

(* ---- SetCodeEventHandler, step by step (log.cc:2133-2155) -------------- *)

\* coreVars without mPc
coreButPc == <<FLAG, mRet, is_initialized_, is_logging_, logOpen, log,
               listeners_, live, released, calls, issued, regAt, profilerObj,
               tickerObj, profiler_, samplerActive, ringVars, running_,
               insertVars, nextSample, consumerVars, histVars>>

\* a V8FileLogger that never finds a JitLogger to remove
HasJitLoggerNever(j) == FALSE

\* if (jit_logger_)   (log.cc:2135, 2195)
HasJitLogger(j) == j # 0

\* std::unique_ptr<JitLogger>: giving the pointer a new value destroys the
\* object it held
UniquePtrAssign(destroyed, old) ==
  IF old # 0 THEN destroyed \cup {old} ELSE destroyed

\* SetCodeEventHandler(options, event_handler) is called; handler says
\* whether event_handler is non-null   (log.cc:2133-2135)
ScCall(handler) ==
  /\ mPc \in {"new", "ready", "closed"}
  /\ handler => jlMade < MaxJitLoggers
  /\ jlRet' = mPc
  /\ jlHandler' = IF handler THEN "handler" ELSE "null"
  /\ mPc' = IF HasJitLogger(jit_logger_) THEN "sc_remove" ELSE "sc_handler"
  /\ UNCHANGED <<coreButPc, encVars, auxButJl, jit_logger_, jlListeners,
                 jlMade, jlDestroyed>>

\* RemoveLogEventListener(jit_logger_.get());   (log.cc:2136)
ScRemove ==
  /\ mPc = "sc_remove"
  /\ jlListeners' = RemoveListener(jlListeners, jit_logger_)
  /\ mPc' = "sc_reset"
  /\ UNCHANGED <<coreButPc, encVars, auxButJl, jit_logger_, jlMade,
                 jlDestroyed, jlHandler, jlRet>>

\* jit_logger_.reset();   (log.cc:2137-2138)
ScReset ==
  /\ mPc = "sc_reset"
  /\ jlDestroyed' = UniquePtrAssign(jlDestroyed, jit_logger_)
  /\ jit_logger_' = 0
  /\ mPc' = "sc_handler"
  /\ UNCHANGED <<coreButPc, encVars, auxButJl, jlListeners, jlMade,
                 jlHandler, jlRet>>

\* if (event_handler) { jit_logger_ = std::make_unique<JitLogger>(...);
\* (log.cc:2141-2146)
ScMake ==
  /\ mPc = "sc_handler"
  /\ jlHandler = "handler"
  /\ jlMade' = jlMade + 1
  /\ jlDestroyed' = UniquePtrAssign(jlDestroyed, jit_logger_)
  /\ jit_logger_' = jlMade + 1
  /\ mPc' = "sc_add"
  /\ UNCHANGED <<coreButPc, encVars, auxButJl, jlListeners, jlHandler,
                 jlRet>>

\* AddLogEventListener(jit_logger_.get()); the enumeration of the existing
\* code that may follow registers nothing   (log.cc:2147-2153)
ScAdd ==
  /\ mPc = "sc_add"
  /\ jlListeners' = AddListener(jlListeners, jit_logger_)
  /\ mPc' = jlRet
  /\ UNCHANGED <<coreButPc, encVars, auxButJl, jit_logger_, jlMade,
                 jlDestroyed, jlHandler, jlRet>>

\* the call returns when event_handler is null   (log.cc:2140, 2155)
ScReturn ==
  /\ mPc = "sc_handler"
  /\ jlHandler = "null"
  /\ mPc' = jlRet
  /\ UNCHANGED <<coreButPc, encVars, auxButJl, jit_logger_, jlListeners,
                 jlMade, jlDestroyed, jlHandler, jlRet>>

\* if (jit_logger_) { RemoveLogEventListener(jit_logger_.get());
\* (log.cc:2195-2196), in TearDownAndGetLogFile
JlTearDownRemove ==
  /\ mPc = "td_jit"
  /\ IF HasJitLogger(jit_logger_)
       THEN /\ jlListeners' = RemoveListener(jlListeners, jit_logger_)
            /\ mPc' = "td_jit_reset"
       ELSE /\ mPc' = "td_close"
            /\ UNCHANGED jlListeners
  /\ UNCHANGED <<coreButPc, encVars, auxButJl, jit_logger_, jlMade,
                 jlDestroyed, jlHandler, jlRet>>

\* ... jit_logger_.reset(); }   (log.cc:2197-2199)
JlTearDownReset ==
  /\ mPc = "td_jit_reset"
  /\ jlDestroyed' = UniquePtrAssign(jlDestroyed, jit_logger_)
  /\ jit_logger_' = 0
  /\ mPc' = "td_close"
  /\ UNCHANGED <<coreButPc, encVars, auxButJl, jlListeners, jlMade,
                 jlHandler, jlRet>>

\* V8FileLogger::V8FileLogger leaves jit_logger_ null (log.cc:1119-1123)
JlStart ==
  /\ jit_logger_ = 0
  /\ jlListeners = <<>>
  /\ jlMade = 0
  /\ jlDestroyed = {}
  /\ jlHandler = "none"
  /\ jlRet = "new"

(* ---- LowLevelLogger (log.cc:609-760) ----------------------------------- *)

\* sizeof(int32_t) and sizeof(Address) of the x64 build, and the padding the
\* compiler puts after each int32_t of CodeCreateStruct (log.cc:629-635)
kInt32Size == 4

kAddressSize == 8

kPadSize == kAddressSize - kInt32Size

\* the tags (log.cc:630, 638, 644) as byte values
kCodeCreateTag == 67

kCodeMoveTag == 77

kCodeMovingGCTag == 71

\* the n bytes of the value v in memory, least significant first
RECURSIVE ToBytes(_, _)
ToBytes(v, n) == IF n = 0 THEN <<>>
                 ELSE <<v % 256>> \o ToBytes(v \div 256, n - 1)

\* the value of a little-endian field
RECURSIVE FromBytes(_)
FromBytes(bs) == IF bs = <<>> THEN 0
                 ELSE Head(bs) + 256 * FromBytes(Tail(bs))

\* the bytes of s from position from (1-based), n of them
Slice(s, from, n) == SubSeq(s, from, from + n - 1)

\* const char arch[] = "x64"; LogWriteBytes(arch, sizeof(arch));
ArchHeader == <<120, 54, 52, 0>>

\* the object representation of a CodeCreateStruct; event is declared
\* without an initialiser, so its padding bytes hold whatever was there
CodeCreateStructBytes(name_size, code_address, code_size, pad) ==
  ToBytes(name_size, kInt32Size) \o pad
    \o ToBytes(code_address, kAddressSize)
    \o ToBytes(code_size, kInt32Size) \o pad

\* the object representation of a CodeMoveStruct
CodeMoveStructBytes(from_address, to_address) ==
  ToBytes(from_address, kAddressSize) \o ToBytes(to_address, kAddressSize)

\* LowLevelLogger::LogWriteStruct: the tag, then the struct
LogWriteStructNoTag(tag, bytes) == bytes

LogWriteStruct(tag, bytes) == <<tag>> \o bytes

\* what LogRecordedBuffer writes for code at code_address with the given
\* instruction bytes, under the given name
CreateRecordBytes(name, code_address, code, pad) ==
  LogWriteStruct(kCodeCreateTag,
                 CodeCreateStructBytes(Len(name), code_address, Len(code),
                                       pad))
    \o name \o code

\* what CodeMoveEvent writes
MoveRecordBytes(from_address, to_address) ==
  LogWriteStruct(kCodeMoveTag, CodeMoveStructBytes(from_address, to_address))

\* names, instruction bytes and addresses; bytes and addresses that read as
\* tags and as NUL are among them
LlNames == {<<>>, <<67>>, <<0, 77>>}

LlCodes == {<<>>, <<77>>, <<67, 0>>}

LlAddresses == {4096, 67}

PadBytes == {[i \in 1..kPadSize |-> 0], [i \in 1..kPadSize |-> 67]}

\* a constructor that leaves out LogCodeInfo()
LlCtorNoCodeInfo ==
  /\ PerfRunning
  /\ ll_output_handle_ = "unset"
  /\ \E opened \in {"file", "nullptr"}, survives \in BOOLEAN :
       /\ ll_output_handle_' = opened
       /\ UNCHANGED ll_file
       /\ procState' = IF opened = "file" \/ survives THEN procState
                                                      ELSE "faulted"
  /\ UNCHANGED <<coreVars, auxVars, nameVars, perfOwn, textVars, llEvents>>

\* LowLevelLogger::LowLevelLogger: FOpen, setvbuf, LogCodeInfo.  FOpen
\* returns nullptr when the file cannot be opened; the constructor does not
\* test it, and setvbuf and fwrite on a null FILE* are undefined: the process
\* faults or goes on with nothing written
LlCtor ==
  /\ PerfRunning
  /\ ll_output_handle_ = "unset"
  /\ \E opened \in {"file", "nullptr"}, survives \in BOOLEAN :
       /\ ll_output_handle_' = opened
       /\ IF opened = "file"
            THEN ll_file' = ArchHeader /\ UNCHANGED procState
            ELSE /\ UNCHANGED ll_file
                 /\ procState' = IF survives THEN procState ELSE "faulted"
  /\ UNCHANGED <<coreVars, auxVars, nameVars, perfOwn, textVars, llEvents>>

\* LowLevelLogger::LogRecordedBuffer (both overloads write the same bytes)
LlLogRecordedBuffer ==
  /\ PerfRunning
  /\ ll_output_handle_ \in {"file", "nullptr"}
  /\ Len(llEvents) < MaxLlEvents
  /\ \E name \in LlNames, code_address \in LlAddresses, code \in LlCodes,
        pad \in PadBytes, survives \in BOOLEAN :
       /\ llEvents' = Append(llEvents,
            [tag |-> "C", name |-> name, code_address |-> code_address,
             code |-> code])
       /\ IF ll_output_handle_ = "file"
            THEN /\ ll_file' = ll_file
                      \o CreateRecordBytes(name, code_address, code, pad)
                 /\ UNCHANGED procState
            ELSE /\ UNCHANGED ll_file
                 /\ procState' = IF survives THEN procState ELSE "faulted"
  /\ UNCHANGED <<coreVars, auxVars, nameVars, perfOwn, textVars, ll_output_handle_>>

\* LowLevelLogger::CodeMoveEvent
LlCodeMoveEvent ==
  /\ PerfRunning
  /\ ll_output_handle_ \in {"file", "nullptr"}
  /\ Len(llEvents) < MaxLlEvents
  /\ \E from_address \in LlAddresses, to_address \in LlAddresses,
        survives \in BOOLEAN :
       /\ llEvents' = Append(llEvents,
            [tag |-> "M", from_address |-> from_address,
             to_address |-> to_address])
       /\ IF ll_output_handle_ = "file"
            THEN /\ ll_file' = ll_file
                      \o MoveRecordBytes(from_address, to_address)
                 /\ UNCHANGED procState
            ELSE /\ UNCHANGED ll_file
                 /\ procState' = IF survives THEN procState ELSE "faulted"
  /\ UNCHANGED <<coreVars, auxVars, nameVars, perfOwn, textVars, ll_output_handle_>>

\* LowLevelLogger::CodeMovingGCEvent
LlCodeMovingGCEvent ==
  /\ PerfRunning
  /\ ll_output_handle_ \in {"file", "nullptr"}
  /\ Len(llEvents) < MaxLlEvents
  /\ \E survives \in BOOLEAN :
       /\ llEvents' = Append(llEvents, [tag |-> "G"])
       /\ IF ll_output_handle_ = "file"
            THEN /\ ll_file' = Append(ll_file, kCodeMovingGCTag)
                 /\ UNCHANGED procState
            ELSE /\ UNCHANGED ll_file
                 /\ procState' = IF survives THEN procState ELSE "faulted"
  /\ UNCHANGED <<coreVars, auxVars, nameVars, perfOwn, textVars, ll_output_handle_>>

\* LowLevelLogger::~LowLevelLogger: base::Fclose(ll_output_handle_)
LlDtor ==
  /\ PerfRunning
  /\ ll_output_handle_ \in {"file", "nullptr"}
  /\ \E survives \in BOOLEAN :
       procState' = IF ll_output_handle_ = "file" \/ survives
                    THEN procState ELSE "faulted"
  /\ ll_output_handle_' = "closed"
  /\ UNCHANGED <<coreVars, auxVars, nameVars, perfOwn, textVars, ll_file, llEvents>>

\* AddLogEventListener(ll_logger_.get()), the statement of SetUp that
\* follows the construction (log.cc:2108-2110); no event comes between the
\* two, and teardown does not register the encoder again
LlAddLogEventListener ==
  /\ PerfRunning
  /\ ll_output_handle_ \in {"file", "nullptr"}
  /\ "ll" \notin Range(listeners_)
  /\ Len(llEvents) = 0
  /\ listeners_' = AddListener(listeners_, "ll")
  /\ UNCHANGED <<coreButListeners, encVars, auxVars>>

\* RemoveLogEventListener(ll_logger_.get()) of TearDownAndGetLogFile
\* (log.cc:2189-2190)
LlRemoveLogEventListener ==
  /\ PerfRunning
  /\ "ll" \in Range(listeners_)
  /\ listeners_' = RemoveListener(listeners_, "ll")
  /\ UNCHANGED <<coreButListeners, encVars, auxVars>>

\* the registry calls the encoder: only a registered listener is called
LlDispatched ==
  /\ "ll" \in Range(DispatchTo(listeners_))
  /\ \/ LlLogRecordedBuffer
     \/ LlCodeMoveEvent
     \/ LlCodeMovingGCEvent

\* ll_logger_.reset() of TearDownAndGetLogFile (log.cc:2191)
LlReset ==
  /\ "ll" \notin Range(listeners_)
  /\ LlDtor

\* ll_logger_ is null until SetUp makes a LowLevelLogger
LlStart ==
  /\ ll_output_handle_ = "unset"
  /\ ll_file = <<>>
  /\ llEvents = <<>>

\* NameBuffer() { Reset(); }
NewNameBuffer == [pos |-> 0, hi |-> -1, dropped |-> FALSE]

(* ---- ExternalLogEventListener (log.cc:438-607) ------------------------ *)

\* LogEventListener::CodeTag, as the switch of GetCodeEventTypeForTag
\* enumerates it (log.cc:90-113); kLength is the length sentinel
CodeTags == {"kBuiltin", "kCallback", "kEval", "kFunction", "kHandler",
             "kBytecodeHandler", "kRegExp", "kScript", "kStub",
             "kNativeFunction", "kNativeScript", "kLength"}

\* the values of v8::CodeEventType that log.cc names
CodeEventTypes == {"kBuiltinType", "kCallbackType", "kEvalType",
                   "kFunctionType", "kHandlerType", "kBytecodeHandlerType",
                   "kRegExpType", "kScriptType", "kStubType",
                   "kRelocationType"}

\* GetCodeEventTypeForTag (log.cc:89-116); kLength falls through to the
\* case of kBuiltin
GetCodeEventTypeForTagNoNative(tag) ==
  CASE tag = "kLength" -> "kBuiltinType"
    [] tag = "kBuiltin" -> "kBuiltinType"
    [] tag = "kCallback" -> "kCallbackType"
    [] tag = "kEval" -> "kEvalType"
    [] tag = "kNativeFunction" -> "kBuiltinType"
    [] tag = "kFunction" -> "kFunctionType"
    [] tag = "kHandler" -> "kHandlerType"
    [] tag = "kBytecodeHandler" -> "kBytecodeHandlerType"
    [] tag = "kRegExp" -> "kRegExpType"
    [] tag = "kNativeScript" -> "kBuiltinType"
    [] tag = "kScript" -> "kScriptType"
    [] tag = "kStub" -> "kStubType"

GetCodeEventTypeForTag(tag) ==
  CASE tag = "kLength" -> "kBuiltinType"
    [] tag = "kBuiltin" -> "kBuiltinType"
    [] tag = "kCallback" -> "kCallbackType"
    [] tag = "kEval" -> "kEvalType"
    [] tag = "kNativeFunction" -> "kFunctionType"
    [] tag = "kFunction" -> "kFunctionType"
    [] tag = "kHandler" -> "kHandlerType"
    [] tag = "kBytecodeHandler" -> "kBytecodeHandlerType"
    [] tag = "kRegExp" -> "kRegExpType"
    [] tag = "kNativeScript" -> "kScriptType"
    [] tag = "kScript" -> "kScriptType"
    [] tag = "kStub" -> "kStubType"

\* the code objects of the heap when LogExistingCode walks it, as the tags
\* ExistingCodeLogger::LogCodeObject gives them (log.cc:2215-2277)
ExistingCode == {<<>>, <<"kBuiltin">>, <<"kStub">>}

\* the v8::CodeEvent of a CodeCreateEvent overload (log.cc:477-560); tag is
\* history, the handler does not see it
CreatedCodeEvent(tag, function_name) ==
  [kind |-> "create", code_type |-> GetCodeEventTypeForTag(tag),
   function_name |-> function_name, tag |-> tag]

\* ExternalLogEventListener::StartListening (log.cc:455-465), with
\* LogExistingCode (log.cc:447-453)
ExtStartListening(h, existing) ==
  /\ procState = "running"
  /\ ~(is_listening_ \/ h = "nullptr")
  /\ Len(handled) + Len(existing) <= MaxHandled
  /\ code_event_handler_' = h
  /\ is_listening_' = AddListenerResult(listeners_, "external")
  /\ listeners_' = AddListener(listeners_, "external")
  /\ handled' = IF AddListenerResult(listeners_, "external")
                  THEN handled \o [i \in 1..Len(existing) |->
                                     CreatedCodeEvent(existing[i], "name")]
                  ELSE handled
  /\ UNCHANGED <<coreButListeners, encVars, auxButTag>>

\* ExternalLogEventListener::StopListening (log.cc:467-474)
ExtStopListening ==
  /\ procState = "running"
  /\ is_listening_
  /\ listeners_' = RemoveListener(listeners_, "external")
  /\ is_listening_' = FALSE
  /\ UNCHANGED <<coreButListeners, encVars, auxButTag,
                 code_event_handler_, handled>>

\* ExternalLogEventListener::CodeCreateEvent, every overload
\* (log.cc:477-560), called by the registry while the listener is in it
ExtCodeCreateEvent(tag) ==
  /\ procState = "running"
  /\ "external" \in Range(listeners_)
  /\ Len(handled) < MaxHandled
  /\ handled' = Append(handled, CreatedCodeEvent(tag, "name"))
  /\ UNCHANGED <<coreVars, encVars, auxButTag,
                 is_listening_, code_event_handler_>>

\* ExternalLogEventListener::RegExpCodeCreateEvent (log.cc:573-588)
ExtRegExpCodeCreateEvent ==
  /\ procState = "running"
  /\ "external" \in Range(listeners_)
  /\ Len(handled) < MaxHandled
  /\ handled' = Append(handled, CreatedCodeEvent("kRegExp", "source"))
  /\ UNCHANGED <<coreVars, encVars, auxButTag,
                 is_listening_, code_event_handler_>>

\* ExternalLogEventListener::CodeMoveEvent (log.cc:590-607)
ExtCodeMoveEvent ==
  /\ procState = "running"
  /\ "external" \in Range(listeners_)
  /\ Len(handled) < MaxHandled
  /\ handled' = Append(handled, [kind |-> "move",
                                 code_type |-> "kRelocationType",
                                 function_name |-> "", tag |-> "none"])
  /\ UNCHANGED <<coreVars, encVars, auxButTag,
                 is_listening_, code_event_handler_>>

\* ExternalLogEventListener::ExternalLogEventListener (log.cc:439-440)
TagStart ==
  /\ is_listening_ = FALSE
  /\ code_event_handler_ = "nullptr"
  /\ handled = <<>>

(* ---- the calls of an ExternalLogEventListener (log.cc:438-474) --------- *)

\* StartListening that tests is_listening_ only
StartListeningReturnsAtOnceIfListening(listening, h) == listening

\* if (is_listening_ || code_event_handler == nullptr) return;
\* (log.cc:457-459)
StartListeningReturnsAtOnce(listening, h) == listening \/ h = "nullptr"

\* a call of StartListening(h), whatever the state of the listener
LsnStartListening(h, existing) ==
  /\ procState = "running"
  /\ extAlive
  /\ Len(handled) + Len(existing) <= MaxHandled
  /\ IF StartListeningReturnsAtOnce(is_listening_, h)
       THEN UNCHANGED <<code_event_handler_, is_listening_, listeners_,
                        handled>>
       ELSE /\ code_event_handler_' = h
            /\ is_listening_' = AddListenerResult(listeners_, "external")
            /\ listeners_' = AddListener(listeners_, "external")
            /\ handled' = IF AddListenerResult(listeners_, "external")
                            THEN handled \o
                                 [i \in 1..Len(existing) |->
                                    CreatedCodeEvent(existing[i], "name")]
                            ELSE handled
  /\ extCall' = [op |-> "StartListening", h |-> h]
  /\ extSeq' = 1 - extSeq
  /\ UNCHANGED <<coreButListeners, encVars, auxButTagLsn, extAlive>>

\* a call of StopListening (log.cc:467-474)
LsnStopListening ==
  /\ procState = "running"
  /\ extAlive
  /\ IF ~is_listening_
       THEN UNCHANGED <<listeners_, is_listening_>>
       ELSE /\ listeners_' = RemoveListener(listeners_, "external")
            /\ is_listening_' = FALSE
  /\ extCall' = [op |-> "StopListening", h |-> "none"]
  /\ extSeq' = 1 - extSeq
  /\ UNCHANGED <<coreButListeners, encVars, auxButTagLsn, extAlive,
                 code_event_handler_, handled>>

\* ~ExternalLogEventListener (log.cc:442-446)
LsnDtor ==
  /\ procState = "running"
  /\ extAlive
  /\ IF is_listening_
       THEN /\ listeners_' = RemoveListener(listeners_, "external")
            /\ is_listening_' = FALSE
       ELSE UNCHANGED <<listeners_, is_listening_>>
  /\ extAlive' = FALSE
  /\ extCall' = [op |-> "destructor", h |-> "none"]
  /\ extSeq' = 1 - extSeq
  /\ UNCHANGED <<coreButListeners, encVars, auxButTagLsn,
                 code_event_handler_, handled>>

\* ExternalLogEventListener::ExternalLogEventListener (log.cc:439-440), for
\* the next listener of the isolate
LsnCtor ==
  /\ procState = "running"
  /\ ~extAlive
  /\ extAlive' = TRUE
  /\ is_listening_' = FALSE
  /\ code_event_handler_' = "nullptr"
  /\ extCall' = [op |-> "constructor", h |-> "none"]
  /\ extSeq' = 1 - extSeq
  /\ UNCHANGED <<coreVars, encVars, auxButTagLsn, handled>>

LsnStart ==
  /\ extAlive = TRUE
  /\ extCall = [op |-> "constructor", h |-> "none"]
  /\ extSeq = 0

\* nothing has been asked of the external listener, the JIT encoder and the
\* coordinator's callers
AuxStart ==
  /\ TagStart
  /\ CcStart
  /\ CelStart
  /\ JitStart
  /\ ApiStart
  /\ SrcStart
  /\ LkStart
  /\ PfnStart
  /\ LsnStart
  /\ JlStart

ExtInit ==
  /\ name_buffer_ = NewNameBuffer
  /\ FLAG_perf_basic_prof_only_functions = FALSE
  /\ PerfStatics
  /\ TextStart
  /\ LlStart
  /\ AuxStart

CoreInit ==
  /\ FLAG \in Configs
  /\ mPc = "new"
  /\ mRet = "ready"
  /\ is_initialized_ = FALSE
  /\ is_logging_ = FALSE
  /\ logOpen = FALSE
  /\ log = <<>>
  /\ listeners_ = <<>>
  /\ live = {}
  /\ released = {}
  /\ calls = <<>>
  /\ issued = <<>>
  /\ regAt = [l \in Listeners |-> 0]
  /\ profilerObj = FALSE
  /\ tickerObj = FALSE
  /\ profiler_ = FALSE
  /\ samplerActive = FALSE
  /\ buffer_ = [i \in 0..(kBufferSize - 1) |-> DefaultSample]
  /\ head_ = 0
  /\ tail_ = 0
  /\ overflow_ = FALSE
  /\ sem = 0
  /\ running_ = FALSE
  /\ iPc = [t \in Threads |-> "none"]
  /\ iSample = [t \in Threads |-> DefaultSample]
  /\ nextSample = 1
  /\ cPc = "idle"
  /\ cSample = DefaultSample
  /\ cResult = FALSE
  /\ cOverflow = FALSE
  /\ accepted = <<>>
  /\ removed = <<>>
  /\ ticks = <<>>
  /\ unread = {}
  /\ fullSince = FALSE
  /\ lastFull = FALSE
  /\ owed = FALSE
  /\ sentinelFate = "none"
  /\ atDisengage = <<>>

Init == CoreInit /\ ExtInit

Insert(t) ==
  \/ InsertCheck(t)
  \/ InsertOverflow(t)
  \/ InsertWrite(t)
  \/ InsertHead(t)
  \/ InsertSignal(t)

Sampler == SampleStack \/ Insert("sampler")

Remove ==
  \/ RemoveWait
  \/ RemoveCopy
  \/ RemoveReadOverflow
  \/ RemoveStoreTail
  \/ RemoveReturn

Consumer == Remove \/ RunTest \/ RunTick

Disengage ==
  \/ DisengageClear
  \/ DisengageStopSampler
  \/ DisengageClearRunning
  \/ DisengageInsert
  \/ Insert("main")
  \/ DisengageJoin
  \/ DisengageReturn

\* the sampling pipeline: --prof with the text log, no other listener
ProfConfig ==
  [perf_basic_prof |-> FALSE, perf_prof |-> FALSE, ll_prof |-> FALSE,
   log |-> TRUE, log_code |-> FALSE, prof_cpp |-> TRUE]

ProfInit == Init /\ FLAG = ProfConfig

ProfMain ==
  \/ SetUp
  \/ EngageStart
  \/ EngageSetProfiler
  \/ EngageLog
  \/ SetUpEnd
  \/ StopProfilerThread
  \/ Disengage
  \/ TearDownBegin
  \/ TearDownStopProfiler
  \/ TearDownTicker
  \/ \E i \in 1..Len(TdOrder) : TearDownRemove(i)
  \/ TearDownClose

ProfNext == ProfMain \/ Sampler \/ Consumer

ProfSpec == ProfInit /\ [][ProfNext]_vars

\* the consumer thread and the thread inside Disengage keep being scheduled
FairProfSpec == ProfSpec /\ WF_vars(Consumer) /\ WF_vars(Disengage)

(* ---- properties of the sampling pipeline ------------------------------ *)

TickSamples == [i \in 1..Len(ticks) |-> ticks[i][1]]

\* Disengage has run to its end (and StopProfilerThread reset profiler_)
DisengageReturned == sentinelFate # "none" /\ ~profilerObj

\* the sentinel Insert of Disengage has returned, Join has not
AtJoin == mPc = "dis_join" /\ iPc["main"] = "none"

\* C1: the samples returned by successive Remove calls are the samples
\* Insert accepted, in insertion order, each exactly once: the sequence of
\* removed samples is always a prefix of the sequence of accepted samples.
C1_RemoveIsFifo == IsPrefix(removed, accepted)

C1_Witness ==
  /\ Len(removed) >= 3
  /\ \E i \in 1..(Len(removed) - 1) : removed[i + 1] > removed[i] + 1

\* C2: a Remove call returns overflow = true if and only if an Insert found
\* the buffer full (and set overflow_) since the previous Remove returned.
C2_OverflowIffFull == Len(removed) > 0 => (cOverflow = lastFull)

\* C3: Insert never overwrites an unread slot: the slot it writes is not
\* one that was written and has not been passed by tail_ yet.
C3_NoOverwrite ==
  [][\A t \in Threads :
       (iPc[t] = "write" /\ iPc'[t] = "head") => head_ \notin unread]_vars

C3_Witness == Len(accepted) > kBufferSize /\ Len(removed) >= 2

\* C4: once running_ is cleared and the sentinel Insert was called, the
\* consumer leaves its loop and Join returns.
C4_DisengageTerminates == (mPc = "dis_join") ~> (mPc = "dis_log")

C4_Witness == mPc = "dis_log" /\ cPc = "done" /\ unread # {}

\* C5: after Disengage has returned the consumer is gone and no further
\* Tick event is delivered; the log is closed only after that.
C5_NoTickAfterDisengage ==
  [][DisengageReturned =>
       (ticks' = ticks /\ cPc' = "done" /\ (~logOpen' => cPc' = "done"))]_vars

C5_Witness == DisengageReturned /\ Len(ticks) > 0 /\ mPc = "closed"

\* C6 (as claimed): every sample accepted before Disengage was called has
\* been delivered as a Tick event when the consumer thread exits.
C6_AllDeliveredBeforeExit ==
  cPc = "done" => Range(atDisengage) \subseteq Range(TickSamples)

\* C6 (amended): the consumer delivers, in the order accepted, every sample
\* Remove returned, except the one returned by its last Remove (after which
\* it found running_ cleared); it exits only once running_ is cleared.
C6_DeliversAllButLastRemoved ==
  /\ IsPrefix(TickSamples, removed)
  /\ IsPrefix(TickSamples, accepted)
  /\ Len(removed) - Len(ticks) <= 1
  /\ cPc \in {"wait", "copy", "readovf", "tail", "clrovf"}
       => Len(ticks) = Len(removed)
  /\ cPc = "done" => (~running_ /\ removed # <<>>
                      /\ TickSamples = Front(removed))

C6_Witness ==
  /\ cPc = "done"
  /\ Len(ticks) >= 1
  /\ ~(Range(atDisengage) \subseteq Range(TickSamples))

C8_OverflowSurfaced ==
  (owed /\ running_ /\ LogEnabled)
    => \/ overflow_
       \/ cPc \in {"tail", "clrovf"} /\ cResult
       \/ cPc \in {"test", "tick"} /\ cOverflow

(* ---- the listener life cycle without the profiler --------------------- *)

LifeInit == Init /\ ~FLAG.prof_cpp

LifeNext ==
  \/ SetUp
  \/ SetUpEnd
  \/ \E kind \in EventKinds : CodeEvent(kind)
  \/ \E enumExisting \in BOOLEAN, handler \in BOOLEAN :
       SetCodeEventHandler(enumExisting, handler)
  \/ TearDownBegin
  \/ TearDownStopProfiler
  \/ TearDownTicker
  \/ \E i \in 1..Len(TdOrder) : TearDownRemove(i)
  \/ \E i \in 1..Len(TdOrder) : TearDownReset(i)
  \/ TearDownClose

LifeSpec == LifeInit /\ [][LifeNext]_vars

\* the events handed to listener l since it was registered
ReceivedBy(l) ==
  LET cl == SelectSeq(calls,
                      LAMBDA c : c.listener = l /\ c.event > regAt[l])
  IN [i \in 1..Len(cl) |-> cl[i].event]

\* the events issued since listener l was registered
IssuedSince(l) == [i \in 1..(Len(issued) - regAt[l]) |-> regAt[l] + i]

\* C9: every registered listener has received exactly the events issued
\* since its registration, each once and in the order of issue.
C9_EveryListenerGetsEveryEvent ==
  \A l \in Range(listeners_) : ReceivedBy(l) = IssuedSince(l)

C9_Witness ==
  /\ Len(listeners_) >= 2
  /\ Len(issued) >= 2
  /\ \A l \in Range(listeners_) : Len(ReceivedBy(l)) >= 2

\* C10: no listener stays in the registry once its backing resource (its
\* own file, or the shared log for the text encoder) has been released, and
\* the log is closed only after the consumer thread is gone.
C10_RemovedBeforeRelease ==
  /\ \A l \in Range(listeners_) : ResourceAvailable(l)
  /\ \A i \in 1..Len(calls) : calls[i].ok
  /\ mPc = "closed" => cPc \in {"idle", "done"}

(* ---- the name buffer ---------------------------------------------------- *)

NameNext ==
  \/ NbInit
  \/ NbAppendName
  \/ NbAppendString
  \/ NbAppendBytes
  \/ NbAppendByte
  \/ NbAppendInt
  \/ NbAppendHex

NameSpec == ProfInit /\ [][NameNext]_vars

\* C11: after every NameBuffer call 0 <= size() <= kUtf8BufferSize, and no
\* byte has been stored at an index >= kUtf8BufferSize
C11_NameBufferBounded ==
  /\ 0 <= name_buffer_.pos
  /\ name_buffer_.pos <= kUtf8BufferSize
  /\ name_buffer_.hi < kUtf8BufferSize

\* appends were cut: the buffer is full and a call stored less than given
C11_Witness ==
  /\ name_buffer_.dropped
  /\ name_buffer_.pos = kUtf8BufferSize
  /\ name_buffer_.hi = kUtf8BufferSize - 1

(* ---- the perf-map encoders of a process --------------------------------- *)

PerfInit ==
  /\ CoreInit
  /\ FLAG = ProfConfig
  /\ name_buffer_ = NewNameBuffer
  /\ FLAG_perf_basic_prof_only_functions \in BOOLEAN
  /\ PerfStatics
  /\ TextStart
  /\ LlStart
  /\ AuxStart

PerfNext == \E i \in Isolates :
  \/ PerfCtorLock(i)
  \/ PerfCtorInc(i)
  \/ PerfCtorOpen(i)
  \/ PerfCtorUnlock(i)
  \/ PerfLogRecordedBuffer(i)
  \/ PerfWrite(i)
  \/ PerfDtorLock(i)
  \/ PerfDtorDec(i)
  \/ PerfDtorClose(i)
  \/ PerfDtorUnlock(i)

PerfSpec == PerfInit /\ [][PerfNext]_vars

\* the instances whose constructor has returned and whose destructor has not
\* yet entered its critical section
LiveInstances == {i \in Isolates : perfPc[i] \in {"alive", "write"}}

PerfQuiescent == PerfRunning /\ file_mutex_ = 0

\* C12: whenever no constructor or destructor is inside its critical section,
\* reference_count_ is the number of live instances and the file is open
\* exactly when reference_count_ > 0; the handle is set only by the
\* construction that made the count 1 and cleared only by the destruction
\* that made it 0
C12_RefCountTracksInstances ==
  /\ [](PerfQuiescent =>
          /\ reference_count_ = Cardinality(LiveInstances)
          /\ (perf_output_handle_ = "file") <=> (reference_count_ > 0))
  /\ [][/\ (perf_output_handle_ = "nullptr" /\ perf_output_handle_' = "file")
             => (reference_count_ = 1 /\ \E i \in Isolates :
                   perfPc[i] = "c_open" /\ file_mutex_ = i)
        /\ (perf_output_handle_ = "file" /\ perf_output_handle_' = "nullptr")
             => (reference_count_ = 0 /\ \E i \in Isolates :
                   perfPc[i] = "d_close" /\ file_mutex_ = i)]_vars

\* two instances were made, one was destroyed and the survivor wrote a line
\* afterwards; then the survivor was destroyed as well and the file is closed
C12_Witness ==
  /\ PerfQuiescent
  /\ perfSurvived
  /\ \E k \in 1..Len(perfFile) : perfFile[k].afterSurvival
  /\ reference_count_ = 0
  /\ perf_output_handle_ = "nullptr"

\* C13: a thread that is opening, writing to or closing the perf-map file
\* holds file_mutex_
C13_FileAccessUnderLock ==
  \A i \in Isolates :
    perfPc[i] \in {"c_open", "write", "d_close"} => file_mutex_ = i

UserFunctionCode(kind) == CodeKindIsJSFunction(kind)

\* C14: in only-functions mode the perf-map file holds a line for an event
\* exactly when the event is about user-function code
C14_OnlyFunctionsWritten ==
  FLAG_perf_basic_prof_only_functions =>
    /\ \A k \in 1..Len(perfFile) : UserFunctionCode(perfFile[k].kind)
    /\ \A k \in 1..Len(perfSkipped) : ~UserFunctionCode(perfSkipped[k])

\* C17: a destination that cannot be opened does not end the process
C17_OpenFailureConfined == procState = "running"

(* ---- the text encoder with two writers ---------------------------------- *)

TextNext ==
  \/ \E t \in TextThreads : TextEvent(t)
  \/ \E t \in TextThreads : TextLock(t)
  \/ \E t \in TextThreads : TextField(t)
  \/ \E t \in TextThreads : TextWriteToLogFile(t)
  \/ \E t \in TextThreads : TextRelease(t)
  \/ UpdateIsLoggingLock
  \/ UpdateIsLoggingStore
  \/ SetProfiling

TextSpec == ProfInit /\ [][TextNext]_vars

\* the threads that hold a message builder
InFlight == {t \in TextThreads :
               textPc[t] \in {"field1", "field2", "write", "release"}}

OneWriter(record) ==
  \A i, j \in 1..Len(record) : /\ record[i].by = record[j].by
                               /\ record[i].call = record[j].call

\* C15: at most one message builder is in flight, and the fields of a record
\* of the log, and of the message being built, all come from one writer
C15_OneMessageInFlight ==
  /\ Cardinality(InFlight) <= 1
  /\ OneWriter(format_buffer_)
  /\ \A k \in 1..Len(log) : OneWriter(log[k]) /\ Len(log[k]) = 2

\* the consumer waits for the guard while the producer is between the two
\* fields of its record
C15_Witness ==
  /\ textPc["consumer"] = "lock"
  /\ textPc["producer"] = "field2"
  /\ Len(format_buffer_) = 1

\* C16: a call of an entry point made while logging is disabled changes
\* neither the log nor the message buffer, takes no guard, leaves the caller
\* where it was and does not end the process; every call is tested, so every
\* record of the log comes from a call made while logging was enabled
C16_DisabledIsNoOp ==
  /\ [](/\ \A c \in textMade : c.entered => c.enabled
        /\ \A k \in 1..Len(log) :
             \E c \in textMade : c.call = log[k][1].call /\ c.enabled)
  /\ [][(textCalls' = textCalls + 1 /\ ~IsLogging)
          => /\ log' = log
             /\ format_buffer_' = format_buffer_
             /\ mutex_' = mutex_
             /\ textPc' = textPc
             /\ procState' = procState]_vars

\* a call wrote its record, logging was then disabled, and a later call made
\* while it was disabled left the log as it was
C16_Witness ==
  /\ Len(log) = 1
  /\ \A t \in TextThreads : textPc[t] = "idle"
  /\ \E c, d \in textMade : /\ c.call < d.call
                            /\ c.entered
                            /\ ~d.enabled
                            /\ ~d.entered

(* ---- SetUp, StopProfilerThread and TearDownAndGetLogFile in any order --- *)

ReMain ==
  \/ SetUp
  \/ SetUpAgain
  \/ EngageStart
  \/ EngageSetProfiler
  \/ EngageLog
  \/ SetUpEnd
  \/ StopProfilerThread
  \/ Disengage
  \/ TearDownBegin
  \/ TearDownStopProfiler
  \/ TearDownTicker
  \/ \E i \in 1..Len(TdOrder) : TearDownRemove(i)
  \/ TearDownClose

ReNext == ReMain \/ Sampler \/ Consumer

ReSpec == ProfInit /\ [][ReNext]_vars

\* the consumer thread of a Profiler exists and has not returned from Run
ConsumerRunning == cPc \notin {"idle", "done", "killed"}

\* the number of Engage calls made so far
Engagements ==
  Cardinality({k \in 1..Len(log) : log[k].ev = "shared-library-end"})

\* C18: a Profiler is made, its consumer thread started and SetProfiler
\* executed only when no Profiler exists, none is attached to the Ticker and
\* no consumer thread is running; without a Profiler nothing is attached and
\* no consumer thread runs
C18_OneProfilerEngaged ==
  /\ [](~profilerObj => (~profiler_ /\ ~ConsumerRunning))
  /\ [][/\ (mPc \in {"new", "ready", "closed"} /\ mPc' = "engage_start")
             => (~profilerObj /\ ~profiler_ /\ ~ConsumerRunning)
        /\ (mPc = "engage_start" /\ mPc' = "engage_set")
             => (~profiler_ /\ ~ConsumerRunning)
        /\ (mPc = "engage_set" /\ mPc' = "engage_log") => ~profiler_]_vars

\* after SetUp, TearDownAndGetLogFile and SetUp a second Profiler is engaged:
\* it is attached to the Ticker and its consumer thread runs
C18_Witness ==
  /\ Engagements = 2
  /\ profilerObj
  /\ profiler_
  /\ ConsumerRunning

\* a second Engage has been made
Reengaged == Engagements >= 2

\* the records the second engagement wrote: those after its first record
SecondEngagement ==
  {k \in 1..Len(log) :
     Cardinality({j \in 1..k : log[j].ev = "shared-library-end"}) >= 2}

\* the second Engage starts on an empty buffer with no signal and no
\* overflow pending, and no Tick record written after it carries the
\* sentinel or a sample accepted before the Disengage
NothingLeftOver ==
  /\ [](\A k \in SecondEngagement :
          log[k].ev = "tick" =>
            log[k].sample \notin (Range(atDisengage) \cup {DefaultSample}))
  /\ [][(mPc = "engage_start" /\ mPc' = "engage_set")
          => (sem = 0 /\ ~overflow_ /\ head_ = tail_)]_vars

\* C19: after a completed Disengage the pipeline can be engaged again: the
\* second engagement leaves the process running with its threads started,
\* and delivers nothing left over from before the Disengage
C19_SafelyReengaged ==
  /\ [](Reengaged => procState = "running")
  /\ NothingLeftOver

(* ---- the low-level log and its reader ----------------------------------- *)

LlNext ==
  \/ LlCtor
  \/ LlLogRecordedBuffer
  \/ LlCodeMoveEvent
  \/ LlCodeMovingGCEvent
  \/ LlDtor

LlSpec == ProfInit /\ [][LlNext]_vars

\* the position after the NUL that ends the architecture name
RECURSIVE AfterHeader(_, _)
AfterHeader(bytes, pos) ==
  IF pos > Len(bytes) THEN pos
  ELSE IF bytes[pos] = 0 THEN pos + 1 ELSE AfterHeader(bytes, pos + 1)

kCodeCreateStructSize == 2 * (kInt32Size + kPadSize) + kAddressSize

kCodeMoveStructSize == 2 * kAddressSize

\* A reader of the format: at pos it reads a tag byte, the struct of that
\* tag and, for 'C', name_size name bytes and code_size instruction bytes.
\* It yields the records read, and a last record "bad" where the bytes do
\* not make a record.
RECURSIVE ParseRecords(_, _)
ParseRecords(bytes, pos) ==
  IF pos > Len(bytes) THEN <<>>
  ELSE IF bytes[pos] = kCodeCreateTag
            /\ pos + kCodeCreateStructSize <= Len(bytes)
  THEN LET st        == Slice(bytes, pos + 1, kCodeCreateStructSize)
           name_size == FromBytes(Slice(st, 1, kInt32Size))
           address   == FromBytes(Slice(st, kInt32Size + kPadSize + 1,
                                        kAddressSize))
           code_size == FromBytes(Slice(st, kInt32Size + kPadSize
                                              + kAddressSize + 1,
                                        kInt32Size))
           body      == pos + 1 + kCodeCreateStructSize
       IN  IF body + name_size + code_size - 1 > Len(bytes)
           THEN <<[tag |-> "bad"]>>
           ELSE <<[tag |-> "C", name |-> Slice(bytes, body, name_size),
                   code_address |-> address,
                   code |-> Slice(bytes, body + name_size, code_size)]>>
                  \o ParseRecords(bytes, body + name_size + code_size)
  ELSE IF bytes[pos] = kCodeMoveTag
            /\ pos + kCodeMoveStructSize <= Len(bytes)
  THEN LET st == Slice(bytes, pos + 1, kCodeMoveStructSize)
       IN  <<[tag |-> "M",
              from_address |-> FromBytes(Slice(st, 1, kAddressSize)),
              to_address |-> FromBytes(Slice(st, kAddressSize + 1,
                                             kAddressSize))]>>
             \o ParseRecords(bytes, pos + 1 + kCodeMoveStructSize)
  ELSE IF bytes[pos] = kCodeMovingGCTag
  THEN <<[tag |-> "G"]>> \o ParseRecords(bytes, pos + 1)
  ELSE <<[tag |-> "bad"]>>

ParseLowLevelLog(bytes) == ParseRecords(bytes, AfterHeader(bytes, 1))

\* C20: reading back the bytes of an opened low-level log yields the events
\* the encoder was handed, in order, with the same addresses, name and
\* instruction bytes, so name_size and code_size are the lengths of the
\* name and of the instructions that follow
C20_LowLevelRoundTrip ==
  ll_output_handle_ \in {"file", "closed"} /\ ll_file # <<>>
    => ParseLowLevelLog(ll_file) = llEvents

\* a create whose name, address and instructions contain tag bytes and NUL,
\* followed by a move, was written and the log closed
C20_Witness ==
  /\ ll_output_handle_ = "closed"
  /\ Len(llEvents) = 2
  /\ llEvents[1].tag = "C"
  /\ llEvents[1].name = <<0, 77>>
  /\ llEvents[1].code = <<67, 0>>
  /\ llEvents[2].tag = "M"
  /\ ll_file # <<>>

(* ---- C21: GetCodeEventTypeForTag -------------------------------------- *)

TagNext ==
  \/ \E h \in {"nullptr", "handler"}, existing \in ExistingCode :
       ExtStartListening(h, existing)
  \/ ExtStopListening
  \/ \E tag \in CodeTags : ExtCodeCreateEvent(tag)
  \/ ExtRegExpCodeCreateEvent
  \/ ExtCodeMoveEvent

TagSpec == ProfInit /\ [][TagNext]_vars

\* the tags that are to share a type
SameTypeTags == {<<"kFunction", "kNativeFunction", "kFunctionType">>,
                 <<"kScript", "kNativeScript", "kScriptType">>}

\* C21: GetCodeEventTypeForTag is total on CodeTag, the length sentinel
\* included, and many-to-one: kFunction and kNativeFunction both give the
\* function type, kScript and kNativeScript both give the script type; and
\* every code-creation event handed to the handler carries the type of the
\* tag it was created with.
C21_TagToTypeTotal ==
  /\ \A tag \in CodeTags : GetCodeEventTypeForTag(tag) \in CodeEventTypes
  /\ \A p \in SameTypeTags : /\ GetCodeEventTypeForTag(p[1]) = p[3]
                             /\ GetCodeEventTypeForTag(p[2]) = p[3]
  /\ \A i \in 1..Len(handled) :
       handled[i].kind = "create" =>
         /\ handled[i].code_type \in CodeEventTypes
         /\ \A p \in SameTypeTags :
              handled[i].tag \in {p[1], p[2]} => handled[i].code_type = p[3]

\* the handler was handed an event for the sentinel and one for a native
\* function
C21_Witness ==
  /\ \E i \in 1..Len(handled) : handled[i].tag = "kLength"
  /\ \E i \in 1..Len(handled) : handled[i].tag = "kNativeFunction"

(* ---- C22: code-creation lines of the text encoder ---------------------- *)

CcNext ==
  \/ \E tag \in CcTags, len \in CcNameLens : CcEvent("producer", tag, len)
  \/ CcLock("producer")
  \/ CcHeader("producer")
  \/ CcName("producer")
  \/ CcWrite("producer")
  \/ CcRelease("producer")
  \/ CcLogCodeDisassemble("producer")
  \/ TextEvent("consumer")
  \/ \E t \in TextThreads : TextLock(t)
  \/ \E t \in TextThreads : TextField(t)
  \/ \E t \in TextThreads : TextWriteToLogFile(t)
  \/ \E t \in TextThreads : TextRelease(t)
  \/ UpdateIsLoggingLock
  \/ UpdateIsLoggingStore

CcSpec == ProfInit /\ [][CcNext]_vars

\* the code-creation lines of the log
CcLines == {k \in 1..Len(log) : log[k][1].kind = "code-create"}

\* a line is the header, the name and the newline of one call
CcWellFormed(line) ==
  /\ Len(line) = 3
  /\ line[1].part = "header" /\ line[2].part = "name"
  /\ line[3].part = "newline"
  /\ \A i \in 1..3 : line[i].call = line[1].call /\ line[i].tag = line[1].tag
  /\ line[1].tag = ccAsked[line[1].call].tag

\* the calls that got a builder and have written their line
CcWritten == {c \in DOMAIN ccAsked :
                /\ \E m \in textMade : m.call = c /\ m.entered
                /\ \A t \in TextThreads :
                     textKind[t].call = c =>
                       textPc[t] \notin {"cc_lock", "cc_header", "cc_name",
                                         "cc_write"}}

C23_InsertEffect ==
  /\ [](\A t \in Threads : iPc[t] # "none" => ENABLED Insert(t))
  /\ [][\A t \in Threads :
          /\ (iPc[t] = "check" /\ iPc'[t] # "check")
               => /\ iPc'[t] = IF Succ(head_) = tail_ THEN "ovf" ELSE "write"
                  /\ UNCHANGED <<ringVars>>
          /\ (iPc[t] = "ovf" /\ iPc'[t] # "ovf")
               => /\ iPc'[t] = "none"
                  /\ overflow_'
                  /\ UNCHANGED <<head_, tail_, buffer_, sem>>
          /\ (iPc[t] = "write" /\ iPc'[t] # "write")
               => /\ iPc'[t] = "head"
                  /\ buffer_'[head_] = iSample[t]
                  /\ \A i \in DOMAIN buffer_ :
                       i # head_ => buffer_'[i] = buffer_[i]
                  /\ UNCHANGED <<head_, tail_, overflow_, sem>>
          /\ (iPc[t] = "head" /\ iPc'[t] # "head")
               => /\ iPc'[t] = "signal"
                  /\ head_' = (head_ + 1) % kBufferSize
                  /\ UNCHANGED <<buffer_, tail_, overflow_, sem>>
          /\ (iPc[t] = "signal" /\ iPc'[t] # "signal")
               => /\ iPc'[t] = "none"
                  /\ sem' = sem + 1
                  /\ UNCHANGED <<buffer_, head_, tail_, overflow_>>]_vars

\* one call has returned on a full buffer and others have written slots
\* until head_ wrapped around
C23_Witness ==
  /\ fullSince
  /\ Len(accepted) >= kBufferSize
  /\ head_ < tail_
  /\ \A t \in Threads : iPc[t] = "none"

(* ---- C24: the overflow field of a Tick record --------------------------- *)

\* the positions of the overflow field in the fields of a record
OverflowAt(fields) == {i \in 1..Len(fields) : fields[i].f = "overflow"}

\* C24: Run hands TickEvent the sample and the overflow value that one
\* Remove call returned (nothing changes either of them between the return
\* and the TickEvent call), and the Tick record written carries the
\* "overflow" field exactly when that value is true: right after the state
\* field and before the frames, which are the frames_count entries of
\* sample.stack in array order and end the record
C24_OverflowFieldOfTick ==
  /\ [](\A k \in 1..Len(log) :
          log[k].ev = "tick" =>
            LET fields == log[k].fields
                n == FramesCount(log[k].sample)
                o == IF log[k].overflow THEN 1 ELSE 0
            IN /\ (OverflowAt(fields) # {}) <=> log[k].overflow
               /\ \A i \in OverflowAt(fields) :
                    fields[i - 1].f = "state" /\ i = Len(fields) - n
               /\ fields[Len(fields) - n - o].f = "state"
               /\ SubSeq(fields, Len(fields) - n + 1, Len(fields))
                    = Stack(log[k].sample)
               /\ Len(Stack(log[k].sample)) = n
               /\ \A i \in 1..(Len(fields) - n) : fields[i].f # "frame")
  /\ [][/\ (cPc = "clrovf" /\ cPc' = "test")
             => cOverflow' = cResult /\ cSample' = cSample
        /\ cPc \in {"test", "tick"} => UNCHANGED <<cSample, cOverflow>>
        /\ (cPc = "tick" /\ cPc' # "tick")
             => log' = IF LogEnabled
                         THEN Append(log, TickRecord(cSample, cOverflow))
                         ELSE log]_vars

\* the log holds a Tick record with the overflow field and two frames, and
\* one without the field
C24_Witness ==
  /\ \E k \in 1..Len(log) : /\ log[k].ev = "tick"
                            /\ log[k].overflow
                            /\ FramesCount(log[k].sample) = 2
  /\ \E k \in 1..Len(log) : log[k].ev = "tick" /\ ~log[k].overflow

(* ---- C25: NameBuffer::Init and the names of a CodeEventLogger ---------- *)

CelNext ==
  \/ CelCodeCreateComment
  \/ CelCodeCreateName
  \/ CelCodeCreateScript
  \/ CelCodeCreateFunction
  \/ CelRegExpCodeCreateEvent

CelSpec == ProfInit /\ [][CelNext]_vars

\* the name of tag followed by ':', as bytes of record rec
TagPrefix(tag, rec) ==
  [i \in 1..(TagNameLen(tag) + 1) |->
     IF i <= TagNameLen(tag) THEN [rec |-> rec, ch |-> tag]
                             ELSE [rec |-> rec, ch |-> ":"]]

\* C25: whatever the buffer holds, after Init(tag) it holds the name of the
\* tag followed by ':' and nothing else; and the name LogRecordedBuffer is
\* handed for the k-th record starts with the name of the record's tag and
\* ':' and consists of bytes stored for the k-th record only
C25_InitThenOwnBytesOnly ==
  /\ \A tag \in CelTags :
       CelName(CelInit(CelNow, tag, Len(recorded) + 1))
         = TagPrefix(tag, Len(recorded) + 1)
  /\ \A k \in 1..Len(recorded) :
       LET r == recorded[k]
       IN /\ r.length = Len(r.name)
          /\ r.length >= TagNameLen(r.tag) + 1
          /\ SubSeq(r.name, 1, TagNameLen(r.tag) + 1) = TagPrefix(r.tag, k)
          /\ \A i \in 1..Len(r.name) : r.name[i].rec = k

\* a record that filled the buffer was followed by a shorter one
C25_Witness ==
  /\ Len(recorded) = 2
  /\ recorded[1].length = kUtf8BufferSize
  /\ recorded[2].length < kUtf8BufferSize
  /\ \E i \in DOMAIN utf8_buffer_ : utf8_buffer_[i].rec = 1

(* ---- C26: the head of the low-level log -------------------------------- *)

LlRegNext ==
  \/ LlCtor
  \/ LlAddLogEventListener
  \/ LlDispatched
  \/ LlRemoveLogEventListener
  \/ LlReset

LlRegSpec == ProfInit /\ [][LlRegNext]_vars

\* the bytes of the architecture name: no NUL but the last
IsArchName(bytes) ==
  /\ Len(bytes) > 1
  /\ bytes[Len(bytes)] = 0
  /\ \A i \in 1..(Len(bytes) - 1) : bytes[i] # 0

\* C26: the encoder is registered only once it is constructed; a file that
\* was opened starts, from the construction on, with the architecture name
\* and its NUL; the file only grows, and it grows only while the encoder is
\* registered, so every record comes after the name
C26_ArchNameFirst ==
  /\ []("ll" \in Range(listeners_) => ll_output_handle_ # "unset")
  /\ [](ll_output_handle_ \in {"file", "closed"} /\ ll_file # <<>>
          => /\ IsArchName(ArchHeader)
             /\ IsPrefix(ArchHeader, ll_file))
  /\ [](ll_output_handle_ = "file" => ll_file # <<>>)
  /\ [][ll_file' # ll_file =>
          \/ ll_file = <<>> /\ ll_output_handle_ = "unset"
                            /\ "ll" \notin Range(listeners_)
          \/ /\ IsPrefix(ll_file, ll_file')
             /\ "ll" \in Range(listeners_)
             /\ IsPrefix(ArchHeader, ll_file)]_vars

\* a code-creation record and a GC record were written after the name, the
\* encoder still registered
C26_Witness ==
  /\ ll_output_handle_ = "file"
  /\ "ll" \in Range(listeners_)
  /\ \E k \in 1..Len(llEvents) : llEvents[k].tag = "C"
  /\ \E k \in 1..Len(llEvents) : llEvents[k].tag = "G"
  /\ Len(ll_file) > Len(ArchHeader) + 1

(* ---- C27: line position recording through the JIT handler -------------- *)

\* SetCodeEventHandler is called between two recordings, not during one
JitNext ==
  \/ SetUp
  \/ SetUpEnd
  \/ /\ jitPc = "idle"
     /\ \E enumExisting \in BOOLEAN, handler \in BOOLEAN :
          SetCodeEventHandler(enumExisting, handler)
  \/ \E table \in Tables, code_type \in JitCodeTypes :
       JitStartCodePosInfoEvent(table, code_type)
  \/ JitAddCodeLinePosInfoEvent
  \/ JitEndCodePosInfoEvent

\* no file encoder, with and without --log
SrcInit ==
  /\ LifeInit
  /\ ~FLAG.perf_basic_prof /\ ~FLAG.perf_prof /\ ~FLAG.ll_prof

\* the flags do not enter the recording
JitInit == SrcInit /\ ~FLAG.log /\ ~FLAG.log_code

JitSpec == JitInit /\ [][JitNext]_vars

\* what the handler is to be handed for a call: the start event, per entry
\* of the table its position events, the end event
RECURSIVE ExpectedPositions(_, _, _, _)
ExpectedPositions(table, data, code_type, call) ==
  IF table = <<>> THEN <<>>
  ELSE LET e == Head(table)
           p == [type |-> "CODE_ADD_LINE_POS_INFO", code_type |-> code_type,
                 user_data |-> data, offset |-> e.code_offset,
                 pos |-> e.position, position_type |-> "POSITION",
                 call |-> call]
       IN (IF e.is_statement
             THEN <<[p EXCEPT !.position_type = "STATEMENT_POSITION"], p>>
             ELSE <<p>>)
          \o ExpectedPositions(Tail(table), data, code_type, call)

ExpectedRecording(c) ==
  LET k == jitCalls[c] IN
  <<[type |-> "CODE_START_LINE_INFO_RECORDING", code_type |-> k.code_type,
     call |-> c]>>
  \o ExpectedPositions(k.table, k.user_data, k.code_type, c)
  \o <<[type |-> "CODE_END_LINE_INFO_RECORDING", code_type |-> k.code_type,
        user_data |-> k.user_data, call |-> c]>>

DeliveredFor(c) == SelectSeq(jitDelivered, LAMBDA e : e.call = c)

\* C27: a call made without a JitLogger delivers nothing; a call made with
\* one delivers the start event, then the position events in table order (a
\* statement gives a STATEMENT_POSITION and then a POSITION event at the same
\* offset, any other entry one POSITION event), then the end event, each
\* position event and the end event with the user_data of the start event;
\* while the call runs the handler has a prefix of that, and the events of
\* different calls follow one another in the order of the calls
C27_LinePosRecording ==
  /\ \A c \in 1..Len(jitCalls) :
       IF ~jitCalls[c].installed THEN DeliveredFor(c) = <<>>
       ELSE IF jitCalls[c].done
              THEN DeliveredFor(c) = ExpectedRecording(c)
              ELSE /\ IsPrefix(DeliveredFor(c), ExpectedRecording(c))
                   /\ Len(DeliveredFor(c)) < Len(ExpectedRecording(c))
  /\ \A i, j \in 1..Len(jitDelivered) :
       i < j => jitDelivered[i].call <= jitDelivered[j].call

\* a recording of a table with a statement and a non-statement has ended
\* with the handler's own data, after a call made without a JitLogger
C27_Witness ==
  /\ Len(jitCalls) = 2
  /\ ~jitCalls[1].installed
  /\ jitCalls[2].done /\ jitCalls[2].installed
  /\ jitCalls[2].user_data = "data1"
  /\ Len(jitCalls[2].table) = 2
  /\ jitCalls[2].table[1].is_statement
  /\ ~jitCalls[2].table[2].is_statement
  /\ Len(jitDelivered) = 5

(* ---- C28: SetUp and TearDownAndGetLogFile called out of turn ----------- *)

\* --prof alone, and --prof with the perf and low-level encoders
ApiConfigs ==
  {ProfConfig,
   [ProfConfig EXCEPT !.perf_basic_prof = TRUE, !.ll_prof = TRUE]}

ApiInit == Init /\ FLAG \in ApiConfigs

ApiMain ==
  \/ ApiSetUp
  \/ EngageStart
  \/ EngageSetProfiler
  \/ EngageLog
  \/ SetUpEnd
  \/ ApiTearDownAndGetLogFile
  \/ Disengage
  \/ TearDownStopProfiler
  \/ TearDownTicker
  \/ \E i \in 1..Len(TdOrder) : TearDownRemove(i)
  \/ \E i \in 1..Len(TdOrder) : TearDownReset(i)
  \/ TearDownClose

ApiNext == ApiMain \/ Sampler \/ Consumer

ApiSpec == ApiInit /\ [][ApiNext]_vars

\* the step is a call of op
Called(op) == apiSeq' # apiSeq /\ apiCall'.op = op

\* everything but the caller's view of the call
ApiObserved == <<coreVars, encVars, auxButApi>>

\* C28: a call of SetUp made while initialized returns true and changes
\* nothing: the listeners, the log, the ticker, the profiler and everything
\* else are as before; a call of TearDownAndGetLogFile made while not
\* initialized returns nullptr and changes nothing
C28_CallsOutOfTurnAreNoOps ==
  [][/\ (Called("SetUp") /\ is_initialized_)
          => (apiCall'.returned = "true" /\ UNCHANGED ApiObserved)
     /\ (Called("TearDownAndGetLogFile") /\ ~is_initialized_)
          => (apiCall'.returned = "nullptr" /\ UNCHANGED ApiObserved)]_vars

\* both have happened: TearDownAndGetLogFile before the first SetUp or after
\* a teardown, and SetUp a second time with the profiler engaged, two
\* listeners registered and a tick in the log
C28_Witness ==
  /\ apiEarly = {"SetUp", "TearDownAndGetLogFile"}
  /\ apiCall = [op |-> "SetUp", returned |-> "true"]
  /\ mPc = "ready"
  /\ profilerObj /\ profiler_ /\ tickerObj
  /\ {"perf_basic", "ll"} \subseteq Range(listeners_)
  /\ \E k \in 1..Len(log) : log[k].ev = "tick"

(* ---- C29: EnsureLogScriptSource ---------------------------------------- *)

SrcNext ==
  \/ SetUp
  \/ SetUpEnd
  \/ TearDownBegin
  \/ TearDownStopProfiler
  \/ TearDownTicker
  \/ \E i \in 1..Len(TdOrder) : TearDownRemove(i)
  \/ TearDownClose
  \/ \E script \in Scripts, source_is_string \in BOOLEAN :
       EnsureLogScriptSource(script, source_is_string)
  \/ \E script \in Scripts, source_is_string \in BOOLEAN,
        log_function_events \in BOOLEAN :
       ScriptDetails(script, source_is_string, log_function_events)
  \/ \E script \in Scripts, source_is_string \in BOOLEAN,
        is_script \in BOOLEAN :
       LogSourceCodeInformation(script, source_is_string, is_script)

SrcSpec == SrcInit /\ [][SrcNext]_vars

\* C29: whenever EnsureLogScriptSource(script) has returned true, by that
\* time a script-source record for the script's id had been written to the
\* log, whatever calls came before
C29_TrueMeansWritten ==
  \A k \in 1..Len(ensureCalls) :
    ensureCalls[k].returned
      => \E j \in 1..k : /\ ensureCalls[j].script = ensureCalls[k].script
                         /\ ensureCalls[j].wrote

(* ---- C30: no operation waits for its own message builder --------------- *)

LkNext ==
  \/ \E fn \in LkEntryOps : LkBegin(fn)
  \/ \E returns \in BOOLEAN : LkGuard(returns)
  \/ \E made \in BOOLEAN : LkCall(made)
  \/ \E gc \in BOOLEAN : LkGetAbstractPC(gc)
  \/ \E enabled \in BOOLEAN : LkNewMessageBuilder(enabled)
  \/ LkWriteToLogFile
  \/ LkRelease
  \/ LkReturn

LkSpec == ProfInit /\ [][LkNext]_vars

\* the calls the claim names
NestedCalls ==
  {"EnsureLogScriptSource", "MapDetails", "RuntimeCallTimerEvent",
   "LogSourceCodeInformation", "LogCodeDisassemble", "GetAbstractPC"}

\* C30: the thread never asks for the log lock while it holds it, and while
\* a message builder is alive its function is the innermost one: every
\* nested logging call and every call of GetAbstractPC is made with no
\* builder alive in the calling operation
C30_NoNestedAcquisition ==
  /\ ~lkDead
  /\ lkHolder # 0 => lkHolder = LkDepth

\* every call the claim names has been made, and the collector has re-entered
\* the encoder from GetAbstractPC inside ICEvent: CodeMoveEvent holds the
\* only builder
C30_Witness ==
  /\ NestedCalls \subseteq lkCalled
  /\ LkDepth = 3
  /\ lkStack[1].fn = "ICEvent"
  /\ lkStack[2].fn = "GetAbstractPC"
  /\ lkStack[3].fn = "CodeMoveEvent"
  /\ lkHolder = 3

(* ---- C31: the placeholders of the log file name ------------------------ *)

PfnNext ==
  \/ \E file_name \in FileNames, per_isolate \in BOOLEAN :
       PfnCall(file_name, per_isolate)
  \/ PfnLoop
  \/ PfnReturn

PfnSpec == ProfInit /\ [][PfnNext]_vars

\* the expansion the name is to have
RECURSIVE Expanded(_)
Expanded(name) ==
  IF name = <<>> THEN <<>>
  ELSE IF Head(name) # "%" THEN <<Head(name)>> \o Expanded(Tail(name))
  ELSE IF Len(name) = 1 THEN <<>>
  ELSE LET x == name[2]
           rest == Expanded(SubSeq(name, 3, Len(name)))
       IN IF x = "p" THEN <<"pid">> \o rest
          ELSE IF x = "t" THEN <<"time">> \o rest
          ELSE IF x = "%" THEN <<"%">> \o rest
          ELSE <<"%", x>> \o rest

\* os without what AddIsolateIdIfNeeded has put into it
WithoutIsolateId(out) == SelectSeq(out, LAMBDA x : x # "isolate-id")

\* C31: when PrepareLogFileName has returned, what it wrote (the isolate id
\* that --logfile-per-isolate inserts aside) is the file name with %p
\* replaced by the process id, %t by the time, %% by %, any other %x kept as
\* %x and every other character kept, a lone % at the end dropped; and it
\* has read no character beyond the terminator of the name
C31_PlaceholdersExpanded ==
  /\ pfnHi <= Len(pfnName) + 1
  /\ pfnP <= Len(pfnName) + 1
  /\ pfnPc = "done" => WithoutIsolateId(pfnOut) = Expanded(pfnName)

\* "%p%" has been expanded: the process id, and the lone % at the end is gone
C31_Witness ==
  /\ pfnPc = "done"
  /\ pfnName = <<"%", "p", "%">>
  /\ pfnOut = <<"pid">>

(* ---- C32: the sentinel of Disengage is not a tick ---------------------- *)

\* C32: running_ is false from before the sentinel is handed to Insert, so
\* the test after the Remove that returns the sentinel, and after any later
\* Remove, ends Run: no Tick event carries the sentinel, neither in what the
\* consumer hands to TickEvent nor in the log
C32_SentinelNotATick ==
  /\ iSample["main"] = DefaultSample /\ iPc["main"] # "none" => ~running_
  /\ sentinelFate # "none" => ~running_
  /\ \A i \in 1..Len(ticks) : ticks[i][1] # DefaultSample
  /\ \A k \in 1..Len(log) :
       log[k].ev = "tick" => log[k].sample # DefaultSample
  /\ (cPc = "tick" /\ cSample = DefaultSample) => FALSE

\* the consumer has removed the sentinel and has returned from Run without
\* logging it, after at least one tick
C32_Witness ==
  /\ sentinelFate = "written"
  /\ cPc = "done"
  /\ removed # <<>>
  /\ removed[Len(removed)] = DefaultSample
  /\ Len(ticks) > 0

(* ---- C33: the semaphore and the two indices of the ring ---------------- *)

\* the number of slots between tail_ and head_
Occupied == (head_ + kBufferSize - tail_) % kBufferSize

\* C33: in every state 0 <= semaphore count <= (head_ - tail_) mod
\* kBufferSize <= kBufferSize - 1; while Remove is between its Wait and its
\* store to tail_ the slot at tail_ is one the producer has written and the
\* consumer has not read, so tail_ differs from head_
C33_SemaphoreWithinOccupancy ==
  /\ 0 <= sem
  /\ sem <= Occupied
  /\ Occupied <= kBufferSize - 1
  /\ cPc \in {"copy", "readovf", "tail"}
       => (tail_ # head_ /\ tail_ \in unread /\ sem < Occupied)

\* the ring is full, every sample in it has been signalled, and the consumer
\* is reading the oldest
C33_Witness ==
  /\ Occupied = kBufferSize - 1
  /\ sem = kBufferSize - 2
  /\ cPc = "copy"
  /\ overflow_

(* ---- C34: one thread in Insert at a time ------------------------------- *)

InInsert(t) == iPc[t] # "none"

\* C34: the sampler and the main thread are never both inside Insert; a
\* sampler push begins only while a profiler is attached to the Ticker; and
\* from the moment Disengage begins the sentinel push the profiler is
\* detached, the sampler stopped and its thread outside Insert
C34_InsertNeverConcurrent ==
  /\ [](~(InInsert("sampler") /\ InInsert("main")))
  /\ []((InInsert("main") \/ sentinelFate # "none")
          => (~InInsert("sampler") /\ ~profiler_ /\ ~samplerActive))
  /\ [][(~InInsert("sampler") /\ InInsert("sampler")')
          => (profiler_ /\ samplerActive)]_vars

\* Disengage is writing the sentinel after the sampler has pushed samples,
\* one of which is still unread
C34_Witness ==
  /\ iPc["main"] = "write"
  /\ iSample["main"] = DefaultSample
  /\ Len(accepted) > 0
  /\ unread # {}

(* ---- C35: is_listening_ and the registry ------------------------------- *)

LsnNext ==
  \/ \E h \in {"nullptr", "handler", "handler2"}, existing \in ExistingCode :
       LsnStartListening(h, existing)
  \/ LsnStopListening
  \/ LsnDtor
  \/ LsnCtor
  \/ \E tag \in {"kBuiltin", "kFunction"} : ExtCodeCreateEvent(tag)

LsnSpec == ProfInit /\ [][LsnNext]_vars

Registered == "external" \in Range(listeners_)

LsnCalled(op) == extSeq' # extSeq /\ extCall'.op = op

\* what a call that returns at once is to leave alone
LsnObserved ==
  <<coreVars, encVars, auxButTagLsn, is_listening_, code_event_handler_,
    handled, extAlive>>

\* C35: while the listener exists is_listening_ is true exactly when it is
\* in the registry, and it is in the registry only with a handler; once
\* destroyed it is not in the registry; StartListening while listening or
\* with a null handler, and StopListening while not listening, change nothing
C35_ListeningIffRegistered ==
  /\ [](extAlive => (is_listening_ <=> Registered))
  /\ [](~extAlive => ~Registered)
  /\ [](Registered => code_event_handler_ # "nullptr")
  /\ [][/\ (LsnCalled("StartListening")
              /\ (is_listening_ \/ extCall'.h = "nullptr"))
             => UNCHANGED LsnObserved
        /\ (LsnCalled("StopListening") /\ ~is_listening_)
             => UNCHANGED LsnObserved
        /\ LsnCalled("destructor") => ~Registered']_vars

\* StartListening with another handler has been called on a listening
\* listener, which still has its first handler and has handled an event
C35_Witness ==
  /\ extCall = [op |-> "StartListening", h |-> "handler2"]
  /\ is_listening_ /\ Registered
  /\ code_event_handler_ = "handler"
  /\ Len(handled) > 0

(* ---- C36: who receives the replayed events ---------------------------- *)

\* the call records a step adds
NewCalls == SubSeq(calls', Len(calls) + 1, Len(calls'))

\* C36: when SetCodeEventHandler enumerates the existing code for the
\* JitLogger it has just installed, the replayed code-creation event is
\* handed to that JitLogger only; no listener that was already registered
\* is called with it.
C36_ReplayToNewListenerOnly ==
  [][SetCodeEventHandler(TRUE, TRUE) /\ Len(issued') > Len(issued)
       => \A i \in 1..Len(NewCalls) : NewCalls[i].listener = "jit"]_vars

(* ---- C37: the JitLoggers of SetCodeEventHandler ----------------------- *)

JlNext ==
  \/ SetUp
  \/ SetUpEnd
  \/ SetUpAgain
  \/ \E handler \in BOOLEAN : ScCall(handler)
  \/ ScRemove
  \/ ScReset
  \/ ScMake
  \/ ScAdd
  \/ ScReturn
  \/ TearDownBegin
  \/ TearDownStopProfiler
  \/ TearDownTicker
  \/ \E i \in 1..3 : TearDownRemove(i)
  \/ \E i \in 1..3 : TearDownReset(i)
  \/ JlTearDownRemove
  \/ JlTearDownReset
  \/ TearDownClose

JlSpec == LifeInit /\ [][JlNext]_vars

\* no call of SetCodeEventHandler is under way
ScIdle == mPc \in {"new", "ready", "closed"}

\* C37: at most one JitLogger is in the registry at any time; a registered
\* JitLogger is the one the V8FileLogger owns and has not been destroyed,
\* so that the previous one left the registry before it was destroyed and
\* before the next was added; and once SetCodeEventHandler has returned
\* from a call with a null handler no JitLogger is registered.
C37_AtMostOneJitLogger ==
  /\ Len(jlListeners) <= 1
  /\ \A j \in Range(jlListeners) : j = jit_logger_ /\ j \notin jlDestroyed
  /\ ScIdle /\ jlHandler = "null" => jlListeners = <<>>

C37_Witness ==
  /\ jlMade >= 2
  /\ jlListeners = <<jit_logger_>>
  /\ 1 \in jlDestroyed
  /\ ScIdle

(* ---- C38: one script-source record per script ------------------------- *)

\* the script-source records of script in the log
ScriptSourceRecords(script) ==
  SelectSeq(log, LAMBDA r : r = [ev |-> "script-source", script |-> script])

\* C38: whatever EnsureLogScriptSource, ScriptDetails and
\* LogSourceCodeInformation calls have been made, the log holds at most one
\* script-source record for each script id.
C38_ScriptSourceAtMostOnce ==
  \A script \in Scripts : Len(ScriptSourceRecords(script)) <= 1

C38_Witness ==
  \E script \in Scripts :
    /\ Len(ScriptSourceRecords(script)) = 1
    /\ \E j, k \in 1..Len(ensureCalls) :
         /\ j < k
         /\ ensureCalls[j].script = script /\ ensureCalls[j].wrote
         /\ ensureCalls[k].script = script
    /\ \E i \in 1..Len(log) : log[i].ev = "code-source-info"

(* ---- C39: numbers are appended whole ---------------------------------- *)

\* by how much a step advances size()
Advance == name_buffer_'.pos - name_buffer_.pos

\* C39: a call of AppendInt or AppendHex advances size() by the length of
\* the number's decimal or hexadecimal text or not at all; a call of
\* AppendBytes advances it by the longest prefix of its argument that fits:
\* never by more than it was given or than there is room for, and by less
\* than it was given only when that fills the buffer.
C39_NumbersAppendedWhole ==
  [][/\ \A n \in IntArgs :
          name_buffer_' = AppendInt(name_buffer_, n)
            => Advance \in {0, DecLen(n)}
     /\ \A n \in HashArgs :
          name_buffer_' = AppendHex(name_buffer_, n)
            => Advance \in {0, HexLen(n)}
     /\ \A size \in 0..MaxLen :
          name_buffer_' = AppendBytes(name_buffer_, size)
            => /\ 0 <= Advance /\ Advance <= size
               /\ name_buffer_'.pos <= kUtf8BufferSize
               /\ Advance < size => name_buffer_'.pos = kUtf8BufferSize]_vars

\* a number was refused although the buffer had room for a part of it: bytes
\* were stored up to the end of the buffer and size() stayed below it
C39_Witness ==
  /\ name_buffer_.dropped
  /\ name_buffer_.pos > kUtf8BufferSize - 11
  /\ name_buffer_.pos < kUtf8BufferSize
  /\ name_buffer_.hi = kUtf8BufferSize - 1

====
